---- MODULE Spec2Model ----
(***************************************************************************)
(* The Transcode plugin (plugins/janus_transcode.c): sessions, the capture *)
(* catalog, the capture directory, the asynchronous request queue and its  *)
(* single worker, and the host callbacks that drive them.                  *)
(***************************************************************************)
EXTENDS Integers, Sequences, FiniteSets, TLC

\* ------------------------------------------------------------------ bounds
NumSess == 2
MaxId == 2
MaxEnt == 2
MaxQueue == 2
MaxPkts == 1
MaxViewers == 1
MaxPacers == 1
MaxRef == 3
MaxRecs == 3
MaxNow == 11
NumThreads == 2
MaxCaptures == 2
\* session->sdp_version is followed up to MaxVersion
MaxVersion == 2

\* ------------------------------------------------------- program constants
JANUS_TRANSCODE_ERROR_INVALID_REQUEST == 413
JANUS_TRANSCODE_ERROR_INVALID_ELEMENT == 414
JANUS_TRANSCODE_ERROR_MISSING_ELEMENT == 415
JANUS_TRANSCODE_ERROR_NOT_FOUND == 416
JANUS_TRANSCODE_ERROR_INVALID_TRANSCODING == 417
JANUS_TRANSCODE_ERROR_INVALID_STATE == 418
JANUS_TRANSCODE_ERROR_INVALID_SDP == 419
JANUS_TRANSCODE_ERROR_TRANSCODING_EXISTS == 420
AUDIO_PT == 111
VIDEO_PT == 100

Sess == 1..NumSess
Ids == 1..MaxId
Ents == 1..MaxEnt

\* A capture file "rec-<id>-audio" / "rec-<id>-video" (the .mjr of the capture
\* directory); NoFile is the NULL file name.
NoFile == <<0, "-">>
AudioFile(id) == <<id, "a">>
VideoFile(id) == <<id, "v">>
Files == {AudioFile(i) : i \in Ids} \cup {VideoFile(i) : i \in Ids}

\* .nfo files of the capture directory: "<id>.nfo" for id in Ids (the name the
\* plugin writes) and one file with another name, slot 0.
NfoNames == 0..MaxId

VARIABLES
    sess,      \* sessions table and session objects, by handle
    host,      \* the host's PeerConnection of each handle
    pacers,    \* playout threads launched and not yet finished, by handle
    obs,       \* per handle, since its last accepted transcode/play: outputs
    ent,       \* heap of janus_transcode_transcoding objects
    catalog,   \* the hash table `transcoding`: id -> entry (0: no key)
    nfo,       \* .nfo files of the capture directory
    mjr,       \* .mjr files of the capture directory
    queue,     \* the GAsyncQueue `messages`
    lst,       \* a `list` request in progress (it holds transcoding_mutex)
    last,      \* the request the worker handled in the last step, and its reply
    ub,        \* a freed entry or a NULL pointer was dereferenced
    parse,     \* janus_transcode_get_frames: the file it is given, the list it returns
    rtp,       \* the RTP path of one capturing session: its simulcast and REMB fields
    tear,      \* the threads inside janus_transcode_hangup_media_internal
    pace,      \* one replaying session and its playout threads
    work       \* the worker's loop, the queue and the shutdown of the plugin

vars == <<sess, host, pacers, obs, ent, catalog, nfo, mjr, queue, lst, last, ub, parse, rtp, tear, pace, work>>

\* The variables of the detailed views; the signalling steps leave them alone.
xvars == <<parse, rtp, tear, pace, work>>

\* ------------------------------------------------------------ data shapes
NoOffer == [null |-> TRUE, id |-> 0, audio |-> FALSE, video |-> FALSE, apt |-> 0, vpt |-> 0]

BlankEnt ==
    [st |-> "free", id |-> 0, arc_file |-> NoFile, vrc_file |-> NoFile,
     acodec |-> "none", vcodec |-> "none", offer |-> NoOffer,
     viewers |-> [s \in Sess |-> 0], completed |-> FALSE, destroyed |-> FALSE, ref |-> 0]

FreedEnt == [BlankEnt EXCEPT !.st = "freed"]

\* janus_transcode_create_session: the fields of a new session
NewSession ==
    [st |-> "live", active |-> FALSE, transcoder |-> FALSE, transcoding |-> 0,
     arc |-> NoFile, vrc |-> NoFile, pub |-> FALSE, aframes |-> FALSE, vframes |-> FALSE,
     hangingup |-> 0, destroyed |-> 0, sdp_version |-> 0]

NoSession == [NewSession EXCEPT !.st = "none"]

NoObs == [stage |-> 0, dones |-> 0, nfos |-> 0]

NoNfo == [ex |-> FALSE, id |-> 0, valid |-> FALSE, audio |-> <<0, "-", "">>, video |-> <<0, "-", "">>]

NoMjr == [ex |-> FALSE, n |-> 0]

\* No operation of the plugin to report: the shape of `last`.  (h, verb) is the
\* request, id the id it named, hassdp whether an SDP came with it, upd whether
\* it asked for a renegotiation; code is
\* the error code of the reply (0: a result), status and rid the result's
\* status and id, sdp and jsep the session description sent with it.
NoLast ==
    [h |-> 0, verb |-> "none", id |-> 0, hassdp |-> FALSE, upd |-> FALSE,
     code |-> 0, status |-> "none", rid |-> 0, sdp |-> NoOffer, jsep |-> "none",
     warning |-> "none"]

\* No file given to the parser
NoParse == [file |-> <<>>, done |-> FALSE, list |-> <<>>]

\* No session on the handle whose RTP path is watched
NoRtp == [st |-> "none"]

\* No session on the handle whose teardown is watched
NoTear == [st |-> "none"]

\* No replay watched
NoPace == [st |-> "none"]

\* The plugin not initialized
NoWork == [st |-> "none"]

IdleList == [on |-> FALSE, todo |-> {}, out |-> {}, must |-> {}]

\* ------------------------------------------------------------------ Init
\* janus_transcode_init on an empty capture directory: empty catalog, no
\* session, empty queue, the worker waiting.
Idle ==
    /\ sess = [s \in Sess |-> NoSession]
    /\ host = [s \in Sess |-> "none"]
    /\ pacers = [s \in Sess |-> 0]
    /\ obs = [s \in Sess |-> NoObs]
    /\ ent = [e \in Ents |-> BlankEnt]
    /\ catalog = [i \in Ids |-> 0]
    /\ nfo = [f \in NfoNames |-> NoNfo]
    /\ mjr = [f \in Files |-> NoMjr]
    /\ queue = <<>>
    /\ lst = IdleList
    /\ last = NoLast
    /\ ub = FALSE

Init == Idle /\ parse = NoParse /\ rtp = NoRtp /\ tear = NoTear /\ pace = NoPace /\ work = NoWork

\* ------------------------------------------------------- reference counts
Live(e) == e # 0 /\ ent[e].st = "live"
Dangling(e) == e # 0 /\ ent[e].st # "live"

\* janus_refcount_decrease: the free callback runs when the count reaches zero
RefDec(E, e) ==
    IF E[e].ref > 1 THEN [E EXCEPT ![e].ref = @ - 1] ELSE [E EXCEPT ![e] = FreedEnt]

RefInc_forgotten(E, e) == E

RefInc(E, e) == [E EXCEPT ![e].ref = @ + 1]

\* An entry object some pointer of the program still designates.
Referenced(e, C, S) ==
    \/ \E i \in Ids : C[i] = e
    \/ \E s \in Sess : S[s].transcoding = e

\* Memory nothing points to any more, freed or leaked, has no part in what
\* the program does next: its slot of the heap is free for a later allocation.
Reclaim(E, C, S) ==
    [e \in Ents |-> IF ~Referenced(e, C, S) THEN BlankEnt ELSE E[e]]

FreeSlots(E) == {e \in Ents : E[e].st = "free"}
NewEnt(E) == CHOOSE e \in FreeSlots(E) : \A f \in FreeSlots(E) : e <= f

\* ------------------------------------------- capture files and descriptors
\* The value of an `audio = <name>.mjr` / `video = <name>.mjr` line of a .nfo;
\* NoLine is the absent key.
NoLine == <<0, "-", "">>
MjrName(f) == <<f[1], f[2], ".mjr">>
\* strstr(file, ".mjr") and truncation there
StripMjr(v) == <<v[1], v[2]>>

\* janus_transcoder_create: opens "<dir>/<name>.mjr" for writing
transcoder_create(M, f) == [M EXCEPT ![f] = [ex |-> TRUE, n |-> 0]]

\* janus_transcoder_save_frame: appends one packet (the info header goes
\* first, with the first packet); nothing on a NULL writer.
transcoder_save_frame(M, f) ==
    IF f = NoFile THEN M ELSE [M EXCEPT ![f] = [ex |-> TRUE, n |-> M[f].n + 1]]

\* janus_transcode_parse_codec: the codec named by the info header of a file
janus_transcode_parse_codec(f) ==
    IF mjr[f].ex /\ mjr[f].n > 0 THEN (IF f[2] = "a" THEN "opus" ELSE "h264") ELSE "none"

\* janus_transcode_get_frames: non-NULL iff the file parses and holds a packet
janus_transcode_get_frames(f) == mjr[f].ex /\ mjr[f].n > 0

\* janus_transcode_generate_offer
janus_transcode_generate_offer(r) ==
    LET offer_audio == r.arc_file # NoFile /\ r.acodec # "none"
        offer_video == r.vrc_file # NoFile /\ r.vcodec # "none"
    IN  [null |-> FALSE, id |-> r.id, audio |-> offer_audio, video |-> offer_video,
         apt |-> IF offer_audio THEN AUDIO_PT ELSE 0,
         vpt |-> IF offer_video THEN VIDEO_PT ELSE 0]

\* The text hangup_media writes to "<id>.nfo" for entry r
NfoText(r) ==
    IF r.arc_file = NoFile /\ r.vrc_file = NoFile
    THEN [ex |-> TRUE, id |-> 0, valid |-> FALSE, audio |-> NoLine, video |-> NoLine]
    ELSE [ex |-> TRUE, id |-> r.id, valid |-> TRUE,
          audio |-> IF r.arc_file # NoFile THEN MjrName(r.arc_file) ELSE NoLine,
          video |-> IF r.vrc_file # NoFile THEN MjrName(r.vrc_file) ELSE NoLine]

\* ------------------------------------------------------ hangup_media
\* janus_transcode_hangup_media_internal on handle s, as a function of the
\* current state: the new session, heap and directory, and what it emitted.
HangupActs(s) == sess[s].st = "live" /\ sess[s].destroyed = 0 /\ sess[s].hangingup = 0

HangupBad(s) == HangupActs(s) /\ Dangling(sess[s].transcoding)

HangupWrites(s) == HangupActs(s) /\ sess[s].transcoder /\ sess[s].transcoding # 0

HangupSess(s) ==
    IF sess[s].st # "live" THEN sess[s]
    ELSE IF ~HangupActs(s) THEN [sess[s] EXCEPT !.active = FALSE]
    ELSE [sess[s] EXCEPT !.active = FALSE, !.arc = NoFile, !.vrc = NoFile, !.pub = FALSE,
                         !.transcoding = 0, !.hangingup = 0]

HangupEnt(s) ==
    LET e == sess[s].transcoding
        done == IF HangupWrites(s)
                THEN [ent EXCEPT ![e].completed = TRUE,
                                 ![e].offer = janus_transcode_generate_offer(ent[e])]
                ELSE ent
    IN  IF HangupActs(s) /\ e # 0 THEN RefDec(done, e) ELSE ent

HangupNfo(s) ==
    LET e == sess[s].transcoding
    IN  IF HangupWrites(s) THEN [nfo EXCEPT ![ent[e].id] = NfoText(ent[e])] ELSE nfo

\* The observer of one capture: stage 1 from the accepted `transcode`, 2 and 4
\* after a `stop` was handled, 3 and 5 after the hangup_media that followed.
ObsStop(o) ==
    IF o.stage = 1 \/ o.stage = 3 THEN [o EXCEPT !.stage = @ + 1] ELSE NoObs

ObsHangup(o, done, wrote) ==
    IF o.stage = 2 \/ o.stage = 4
    THEN [o EXCEPT !.stage = @ + 1,
                   !.dones = IF done THEN @ + 1 ELSE @,
                   !.nfos = IF wrote THEN @ + 1 ELSE @]
    ELSE NoObs

\* ------------------------------------------------ sessions and callbacks
\* janus_transcode_create_session
CreateSession(s) ==
    /\ ~ub
    /\ UNCHANGED xvars
    /\ sess[s].st = "none"
    /\ sess' = [sess EXCEPT ![s] = NewSession]
    /\ last' = NoLast
    /\ UNCHANGED <<host, pacers, obs, ent, catalog, nfo, mjr, queue, lst, ub>>

\* The session after janus_transcode_session_destroy removed it from the table
GoneSession == [NoSession EXCEPT !.st = "gone", !.destroyed = 1]

\* janus_transcode_destroy_session: hangup_media_internal, then the removal
\* from the sessions table, which sets `destroyed`.
DestroySession(s) ==
    /\ ~ub
    /\ UNCHANGED xvars
    /\ sess[s].st = "live"
    /\ last' = NoLast
    /\ IF HangupBad(s)
       THEN /\ ub' = TRUE
            /\ UNCHANGED <<sess, host, obs, ent, nfo>>
       ELSE /\ sess' = [sess EXCEPT ![s] = GoneSession]
            /\ ent' = Reclaim(HangupEnt(s), catalog, sess')
            /\ nfo' = HangupNfo(s)
            /\ host' = [host EXCEPT ![s] = "none"]
            /\ obs' = [obs EXCEPT ![s] = NoObs]
            /\ ub' = ub
    /\ UNCHANGED <<pacers, catalog, mjr, queue, lst>>

\* janus_transcode_hangup_media: the host reports that the PeerConnection of
\* handle s is gone (it was closed by the peer, or close_pc asked for it).
HangupMedia(s) ==
    /\ ~ub
    /\ UNCHANGED xvars
    /\ sess[s].st = "live"
    /\ host[s] # "none"
    /\ last' = NoLast
    /\ IF HangupBad(s)
       THEN /\ ub' = TRUE
            /\ UNCHANGED <<sess, host, obs, ent, nfo>>
       ELSE /\ sess' = [sess EXCEPT ![s] = HangupSess(s)]
            /\ ent' = Reclaim(HangupEnt(s), catalog, sess')
            /\ nfo' = HangupNfo(s)
            /\ host' = [host EXCEPT ![s] = "none"]
            /\ obs' = [obs EXCEPT ![s] = ObsHangup(@, HangupActs(s), HangupWrites(s))]
            /\ ub' = ub
    /\ UNCHANGED <<pacers, catalog, mjr, queue, lst>>

\* janus_transcode_setup_media: the PeerConnection negotiated on s is up
SetupMedia(s) ==
    /\ ~ub
    /\ UNCHANGED xvars
    /\ sess[s].st = "live"
    /\ host[s] = "neg"
    /\ sess[s].transcoder \/ pacers[s] < MaxPacers
    /\ sess' = [sess EXCEPT ![s].hangingup = 0, ![s].active = TRUE]
    /\ pacers' = [pacers EXCEPT ![s] = IF sess[s].transcoder THEN @ ELSE @ + 1]
    /\ host' = [host EXCEPT ![s] = "up"]
    /\ last' = NoLast
    /\ UNCHANGED <<obs, ent, catalog, nfo, mjr, queue, lst, ub>>

\* janus_transcode_incoming_rtp (no simulcast): one packet of the given medium
IncomingRtp(s, video) ==
    /\ ~ub
    /\ UNCHANGED xvars
    /\ sess[s].st = "live"
    /\ host[s] = "up"
    /\ sess[s].transcoder /\ sess[s].transcoding # 0
    /\ LET w == IF video THEN sess[s].vrc ELSE sess[s].arc
       IN  /\ w # NoFile => mjr[w].n < MaxPkts
           /\ mjr' = transcoder_save_frame(mjr, w)
    /\ last' = NoLast
    /\ UNCHANGED <<sess, host, pacers, obs, ent, catalog, nfo, queue, lst, ub>>

\* janus_transcode_playout_thread, from its launch by setup_media to its exit
PlayoutThread(s) ==
    /\ ~ub
    /\ UNCHANGED xvars
    /\ pacers[s] > 0
    /\ pacers' = [pacers EXCEPT ![s] = @ - 1]
    /\ last' = NoLast
    /\ LET e == sess[s].transcoding
       IN  IF e = 0 \/ (Live(e) /\ (sess[s].transcoder \/ (~sess[s].aframes /\ ~sess[s].vframes)))
           THEN UNCHANGED <<sess, host, ent, ub>>
           ELSE IF \/ Dangling(e)
                   \/ sess[s].aframes /\ ent[e].arc_file = NoFile
                   \/ sess[s].vframes /\ ent[e].vrc_file = NoFile
           THEN /\ ub' = TRUE
                /\ UNCHANGED <<sess, host, ent>>
           ELSE IF \/ sess[s].aframes /\ ~mjr[ent[e].arc_file].ex
                   \/ sess[s].vframes /\ ~mjr[ent[e].vrc_file].ex
           THEN UNCHANGED <<sess, host, ent, ub>>
           ELSE /\ sess' = [sess EXCEPT ![s].aframes = FALSE, ![s].vframes = FALSE]
                /\ ent' = [ent EXCEPT ![e].viewers[s] = IF @ > 0 THEN @ - 1 ELSE @]
                /\ host' = [host EXCEPT ![s] = "closing"]
                /\ ub' = ub
    /\ UNCHANGED <<obs, catalog, nfo, mjr, queue, lst>>

\* janus_transcode_handle_message, an asynchronous verb: the message is pushed
\* on the queue and JANUS_PLUGIN_OK_WAIT returned.
g_async_queue_push_front(q, m) == <<m>> \o q

g_async_queue_push(q, m) == Append(q, m)

Verbs == {"transcode", "play", "start", "stop"}

HandleMessage(s, verb) ==
    /\ ~ub
    /\ UNCHANGED xvars
    /\ sess[s].st = "live"
    /\ Len(queue) < MaxQueue
    /\ queue' = g_async_queue_push(queue, [h |-> s, verb |-> verb])
    /\ last' = NoLast
    /\ UNCHANGED <<sess, host, pacers, obs, ent, catalog, nfo, mjr, lst, ub>>

\* ------------------------------------------------------------- `list`
\* A descriptor the scan turns into an entry (when its id is not in the
\* catalog): a section with a non-zero id, name and date, audio or video.
ValidNfo(c) == c.ex /\ c.id # 0 /\ c.valid /\ (c.audio # NoLine \/ c.video # NoLine)

\* handle_message, "list": transcoding_mutex is taken and the iteration over
\* the hash table begins.  `must` notes the ids whose "<id>.nfo", written at
\* the end of a capture, is in the directory when the request starts.
ListBegin ==
    /\ ~ub
    /\ UNCHANGED xvars
    /\ ~lst.on
    /\ \E s \in Sess : sess[s].st = "live"
    /\ lst' = [on |-> TRUE, todo |-> {i \in Ids : catalog[i] # 0}, out |-> {},
               must |-> {i \in Ids : ValidNfo(nfo[i]) /\ nfo[i].id = i}]
    /\ last' = NoLast
    /\ UNCHANGED <<sess, host, pacers, obs, ent, catalog, nfo, mjr, queue, ub>>

ListIncludes_all(r) == TRUE

\* The test of the loop body: ongoing captures are skipped
ListIncludes(r) == r.completed

\* One iteration of the loop over the hash table
ListStep(i) ==
    /\ ~ub
    /\ UNCHANGED xvars
    /\ lst.on
    /\ i \in lst.todo
    /\ last' = NoLast
    /\ IF Dangling(catalog[i])
       THEN /\ ub' = TRUE
            /\ lst' = lst
       ELSE /\ lst' = [lst EXCEPT !.todo = @ \ {i},
                                  !.out = IF ListIncludes(ent[catalog[i]])
                                          THEN @ \cup {ent[catalog[i]].id} ELSE @]
            /\ ub' = ub
    /\ UNCHANGED <<sess, host, pacers, obs, ent, catalog, nfo, mjr, queue>>

\* The end of the iteration: the mutex is released and the reply sent
ListEnd ==
    /\ ~ub
    /\ UNCHANGED xvars
    /\ lst.on
    /\ lst.todo = {}
    /\ lst' = IdleList
    /\ last' = NoLast
    /\ UNCHANGED <<sess, host, pacers, obs, ent, catalog, nfo, mjr, queue, ub>>

\* ----------------------------------------------------------- `update`
\* The entry the scan builds from descriptor c
ScannedEntry(c) ==
    LET arc == IF c.audio # NoLine THEN StripMjr(c.audio) ELSE NoFile
        vrc == IF c.video # NoLine THEN StripMjr(c.video) ELSE NoFile
        r == [BlankEnt EXCEPT !.st = "live", !.id = c.id, !.arc_file = arc, !.vrc_file = vrc,
                              !.acodec = IF arc # NoFile THEN janus_transcode_parse_codec(arc) ELSE "none",
                              !.vcodec = IF vrc # NoFile THEN janus_transcode_parse_codec(vrc) ELSE "none",
                              !.completed = TRUE, !.ref = 1]
    IN  [r EXCEPT !.offer = janus_transcode_generate_offer(r)]

\* The body of the readdir loop for one .nfo file; st is the scan's state: the
\* heap E, the table C, the list old_transcoding, and whether a freed entry was
\* used (bad) or the heap bound was hit (full).
ScanFile(c, st) ==
    IF st.bad \/ st.full \/ ~c.ex \/ c.id = 0 THEN st
    ELSE IF st.C[c.id] # 0
    THEN LET e == st.C[c.id]
         IN  IF st.E[e].st # "live" THEN [st EXCEPT !.bad = TRUE]
             ELSE [st EXCEPT !.old = @ \ {e}, !.E = RefDec(@, e)]
    ELSE IF ~c.valid \/ (c.audio = NoLine /\ c.video = NoLine) THEN st
    ELSE IF FreeSlots(st.E) = {} THEN [st EXCEPT !.full = TRUE]
    ELSE [st EXCEPT !.E[NewEnt(st.E)] = ScannedEntry(c), !.C[c.id] = NewEnt(st.E)]

RECURSIVE ScanDir(_, _)
ScanDir(files, st) ==
    IF files = <<>> THEN st ELSE ScanDir(Tail(files), ScanFile(nfo[Head(files)], st))

\* The removal of what is left in old_transcoding: g_hash_table_remove (its
\* value destructor is janus_transcode_transcoding_destroy), one more unref.
RECURSIVE ScanRemove(_, _)
ScanRemove(old, st) ==
    IF old = {} THEN st
    ELSE LET e == CHOOSE x \in old : TRUE
             gone == [st.E EXCEPT ![e].destroyed = TRUE]
         IN  ScanRemove(old \ {e},
                        [st EXCEPT !.E = RefDec(RefDec(gone, e), e), !.C[st.E[e].id] = 0])

\* The orders in which readdir may return the .nfo files
DirOrders ==
    {o \in [1..Cardinality(NfoNames) -> NfoNames] : \A f \in NfoNames : \E k \in DOMAIN o : o[k] = f}

\* janus_transcode_update_transcoding_list
ScanResult(order) ==
    LET held == {catalog[i] : i \in {j \in Ids : catalog[j] # 0}}
        E0 == [e \in Ents |-> IF e \in held THEN [ent[e] EXCEPT !.ref = @ + 1] ELSE ent[e]]
        st0 == [E |-> E0, C |-> catalog, old |-> held, bad |-> \E e \in held : ent[e].st # "live",
                full |-> FALSE]
        st1 == ScanDir(order, st0)
    IN  IF st1.bad \/ st1.full THEN st1 ELSE ScanRemove(st1.old, st1)

\* handle_message / handle_admin_message, "update"
Update ==
    /\ ~ub
    /\ UNCHANGED xvars
    /\ ~lst.on
    /\ \E order \in DirOrders :
         LET st == ScanResult(order)
         IN  /\ ~st.full
             /\ IF st.bad
                THEN /\ ub' = TRUE
                     /\ UNCHANGED <<ent, catalog>>
                ELSE /\ catalog' = st.C
                     /\ ent' = Reclaim(st.E, st.C, sess)
                     /\ ub' = ub
    /\ last' = [NoLast EXCEPT !.verb = "update"]
    /\ UNCHANGED <<sess, host, pacers, obs, nfo, mjr, queue, lst>>

\* ------------------------------------------------- the capture directory
\* The descriptors somebody may put in the directory under a name of their
\* own: a good one for each id, one of an id without name or date, one without
\* a section.
GoodNfo(i) ==
    [ex |-> TRUE, id |-> i, valid |-> TRUE, audio |-> MjrName(AudioFile(i)), video |-> MjrName(VideoFile(i))]

NfoInputs ==
    {GoodNfo(i) : i \in Ids} \cup {[GoodNfo(1) EXCEPT !.valid = FALSE]}

PlaceNfo(c) ==
    /\ ~ub
    /\ UNCHANGED xvars
    /\ nfo[0] # c
    /\ nfo' = [nfo EXCEPT ![0] = c]
    /\ last' = NoLast
    /\ UNCHANGED <<sess, host, pacers, obs, ent, catalog, mjr, queue, lst, ub>>

RemoveNfo(f) ==
    /\ ~ub
    /\ UNCHANGED xvars
    /\ nfo[f].ex
    /\ nfo' = [nfo EXCEPT ![f] = NoNfo]
    /\ last' = NoLast
    /\ UNCHANGED <<sess, host, pacers, obs, ent, catalog, mjr, queue, lst, ub>>

\* ------------------------------------------------------------ the worker
\* janus_transcode_handler: g_async_queue_pop takes the head of the queue.
Popped(verb) == ~ub /\ queue # <<>> /\ Head(queue).verb = verb /\ sess[Head(queue).h].st = "live"

Pop == queue' = Tail(queue)

\* The request as `last` reports it
Request(id, hassdp) ==
    [NoLast EXCEPT !.h = Head(queue).h, !.verb = Head(queue).verb, !.id = id, !.hassdp = hassdp]

\* (a variant that has counted an SDP version before it fails)
ErrorReply_bumps(id, hassdp, code) ==
    /\ Pop
    /\ UNCHANGED xvars
    /\ last' = [Request(id, hassdp) EXCEPT !.code = code]
    /\ sess' = [sess EXCEPT ![Head(queue).h].sdp_version = (@ + 1) % (MaxVersion + 1)]
    /\ UNCHANGED <<host, pacers, obs, ent, catalog, nfo, mjr, lst, ub>>

\* The `error:` exit of the loop body: an error event, nothing else
ErrorReply(id, hassdp, code) ==
    /\ Pop
    /\ UNCHANGED xvars
    /\ last' = [Request(id, hassdp) EXCEPT !.code = code]
    /\ UNCHANGED <<sess, host, pacers, obs, ent, catalog, nfo, mjr, lst, ub>>

\* A freed entry is dereferenced while the request is handled
Crash ==
    /\ ub' = TRUE
    /\ UNCHANGED xvars
    /\ last' = NoLast
    /\ UNCHANGED <<sess, host, pacers, obs, ent, catalog, nfo, mjr, queue, lst>>

\* The message of a handle whose session is gone is freed, unhandled
HandlerDrop ==
    /\ ~ub
    /\ UNCHANGED xvars
    /\ queue # <<>>
    /\ sess[Head(queue).h].st # "live"
    /\ Pop
    /\ last' = [Request(0, FALSE) EXCEPT !.status = "dropped"]
    /\ UNCHANGED <<sess, host, pacers, obs, ent, catalog, nfo, mjr, lst, ub>>

\* "transcode" without an SDP offer
TranscodeNoOffer ==
    /\ Popped("transcode")
    /\ ErrorReply(0, FALSE, JANUS_TRANSCODE_ERROR_MISSING_ELEMENT)

\* "transcode" with an offer janus_sdp_parse rejects
TranscodeBadOffer ==
    /\ Popped("transcode")
    /\ ErrorReply(0, TRUE, JANUS_TRANSCODE_ERROR_INVALID_SDP)

\* The answer to an offer, for the media the capture takes
Answer(id, audio, video) ==
    [null |-> FALSE, id |-> id, audio |-> audio, video |-> video,
     apt |-> IF audio THEN AUDIO_PT ELSE 0, vpt |-> IF video THEN VIDEO_PT ELSE 0]

\* "transcode" with jsep.update: renegotiation of the capture of the session
TranscodeUpdate ==
    /\ Popped("transcode")
    /\ UNCHANGED xvars
    /\ LET s == Head(queue).h
           e == sess[s].transcoding
       IN  IF ~sess[s].transcoder \/ e = 0
           THEN /\ Pop
                /\ last' = [Request(0, TRUE) EXCEPT !.upd = TRUE, !.code = JANUS_TRANSCODE_ERROR_INVALID_STATE]
                /\ UNCHANGED <<sess, host, pacers, obs, ent, catalog, nfo, mjr, lst, ub>>
           ELSE IF Dangling(e) THEN Crash
           ELSE /\ Pop
                /\ sess[s].sdp_version < MaxVersion
                /\ sess' = [sess EXCEPT ![s].sdp_version = @ + 1, ![s].hangingup = 0]
                /\ host' = [host EXCEPT ![s] = "neg"]
                /\ last' = [Request(0, TRUE) EXCEPT
                              !.upd = TRUE,
                              !.status = "transcoding", !.rid = ent[e].id, !.jsep = "answer",
                              !.sdp = Answer(ent[e].id, sess[s].arc # NoFile, sess[s].vrc # NoFile)]
                /\ UNCHANGED <<pacers, obs, ent, catalog, nfo, mjr, lst, ub>>

IdExists_never(C, id) == FALSE

\* The test `g_hash_table_lookup(transcoding, &id) != NULL`
IdExists(C, id) == C[id] # 0

\* "transcode" proposing an id the catalog holds
TranscodeExists(id) ==
    /\ Popped("transcode")
    /\ ~lst.on
    /\ IdExists(catalog, id)
    /\ ErrorReply(id, TRUE, JANUS_TRANSCODE_ERROR_TRANSCODING_EXISTS)

\* The media of an SDP offer: no m-line, an m-line the peer only receives on,
\* an m-line the peer sends on (with a codec the plugin knows)
Directions == {"absent", "recvonly", "sendonly"}

\* "transcode", a new capture.  want is the id of the request (0: none given),
\* id the one taken.
TranscodeNew(want, id, amedia, vmedia) ==
    /\ Popped("transcode")
    /\ UNCHANGED xvars
    /\ ~lst.on
    /\ want # 0 => id = want
    /\ ~IdExists(catalog, id)
    /\ FreeSlots(ent) # {}
    /\ LET s == Head(queue).h
           e == NewEnt(ent)
           acodec == IF amedia = "sendonly" THEN "opus" ELSE "none"
           vcodec == IF vmedia = "recvonly" THEN "none" ELSE "h264"
           audio == acodec # "none"
           video == vcodec # "none"
           m1 == IF audio THEN transcoder_create(mjr, AudioFile(id)) ELSE mjr
           m2 == IF video THEN transcoder_create(m1, VideoFile(id)) ELSE m1
           rec == [BlankEnt EXCEPT !.st = "live", !.id = id, !.acodec = acodec, !.vcodec = vcodec,
                                   !.arc_file = IF audio THEN AudioFile(id) ELSE NoFile,
                                   !.vrc_file = IF video THEN VideoFile(id) ELSE NoFile,
                                   !.ref = 2]
       IN  /\ Pop
           /\ mjr' = m2
           /\ catalog' = [catalog EXCEPT ![id] = e]
           /\ sess' = [sess EXCEPT
                         ![s].arc = IF audio THEN AudioFile(id) ELSE @,
                         ![s].vrc = IF video THEN VideoFile(id) ELSE @,
                         ![s].pub = TRUE, ![s].transcoder = TRUE, ![s].transcoding = e,
                         ![s].sdp_version = 1, ![s].hangingup = 0]
           /\ ent' = Reclaim([ent EXCEPT ![e] = rec], catalog', sess')
           /\ host' = [host EXCEPT ![s] = "neg"]
           /\ obs' = [obs EXCEPT ![s] = [NoObs EXCEPT !.stage = 1]]
           /\ last' = [Request(want, TRUE) EXCEPT
                         !.status = "transcoding", !.rid = id, !.jsep = "answer",
                         !.sdp = Answer(id, audio, video)]
           /\ UNCHANGED <<pacers, nfo, lst, ub>>

\* "play" with an SDP attached
PlayWithSdp ==
    /\ Popped("play")
    /\ ErrorReply(0, TRUE, JANUS_TRANSCODE_ERROR_INVALID_ELEMENT)

\* "play" with restart: the offer of the entry again, as an ICE restart
PlayRestart ==
    /\ Popped("play")
    /\ UNCHANGED xvars
    /\ LET s == Head(queue).h
           e == sess[s].transcoding
       IN  IF sess[s].transcoder \/ e = 0
           THEN ErrorReply(0, FALSE, JANUS_TRANSCODE_ERROR_INVALID_STATE)
           ELSE IF Dangling(e) THEN Crash
           ELSE IF ent[e].offer.null
           THEN ErrorReply(0, FALSE, JANUS_TRANSCODE_ERROR_INVALID_STATE)
           ELSE /\ Pop
                /\ sess[s].sdp_version < MaxVersion
                /\ sess' = [sess EXCEPT ![s].sdp_version = @ + 1, ![s].hangingup = 0]
                /\ host' = [host EXCEPT ![s] = "neg"]
                /\ last' = [Request(0, FALSE) EXCEPT
                              !.status = "restarting", !.rid = ent[e].id, !.jsep = "offer",
                              !.sdp = ent[e].offer]
                /\ UNCHANGED <<pacers, obs, ent, catalog, nfo, mjr, lst, ub>>

\* (a variant that looks at the `destroyed` flag only)
NotPlayable_destroyed(r) == r.destroyed

\* The test of line 1725 on the entry found: `rec->offer == NULL ||
\* g_atomic_int_get(&rec->destroyed)`
NotPlayable(r) == r.offer.null \/ r.destroyed

\* "play" of an id (0: the id of no entry) the catalog does not hold, or whose
\* entry has no offer yet
PlayNotFound(id) ==
    /\ Popped("play")
    /\ ~lst.on
    /\ LET e == IF id = 0 THEN 0 ELSE catalog[id]
       IN  IF Dangling(e) THEN Crash
           ELSE /\ IF e = 0 THEN TRUE ELSE NotPlayable(ent[e])
                /\ ErrorReply(id, FALSE, JANUS_TRANSCODE_ERROR_NOT_FOUND)

\* The frame lists of the session after "play" read the files of entry r
PlayFrames(s, r) ==
    [a |-> IF r.arc_file # NoFile THEN janus_transcode_get_frames(r.arc_file) ELSE sess[s].aframes,
     v |-> IF r.vrc_file # NoFile THEN janus_transcode_get_frames(r.vrc_file) ELSE sess[s].vframes]

\* "play" of an entry with an offer: the session becomes one of its viewers,
\* unless it is left without any frame list (417)
PlayNew(id) ==
    /\ Popped("play")
    /\ UNCHANGED xvars
    /\ ~lst.on
    /\ catalog[id] # 0
    /\ Live(catalog[id])
    /\ ~NotPlayable(ent[catalog[id]])
    /\ ent[catalog[id]].ref < MaxRef
    /\ LET s == Head(queue).h
           e == catalog[id]
           fr == PlayFrames(s, ent[e])
       IN  /\ Pop
           /\ IF ~fr.a /\ ~fr.v
              THEN /\ sess' = [sess EXCEPT ![s].aframes = FALSE, ![s].vframes = FALSE]
                   /\ ent' = RefInc(ent, e)
                   /\ last' = [Request(id, FALSE) EXCEPT !.code = JANUS_TRANSCODE_ERROR_INVALID_TRANSCODING]
                   /\ UNCHANGED <<host, obs>>
              ELSE /\ ent[e].viewers[s] < MaxViewers
                   /\ sess' = [sess EXCEPT ![s].aframes = fr.a, ![s].vframes = fr.v,
                                           ![s].transcoding = e, ![s].transcoder = FALSE,
                                           ![s].hangingup = 0]
                   /\ ent' = Reclaim([RefInc(ent, e) EXCEPT ![e].viewers[s] = @ + 1], catalog, sess')
                   /\ host' = [host EXCEPT ![s] = "neg"]
                   /\ obs' = [obs EXCEPT ![s] = NoObs]
                   /\ last' = [Request(id, FALSE) EXCEPT
                                 !.status = "preparing", !.rid = id, !.jsep = "offer",
                                 !.sdp = ent[e].offer,
                                 !.warning = IF ent[e].vrc_file # NoFile /\ ~fr.v THEN "video"
                                             ELSE IF ent[e].arc_file # NoFile /\ ~fr.a THEN "audio"
                                             ELSE "none"]
           /\ UNCHANGED <<pacers, catalog, nfo, mjr, lst, ub>>

StartMissesSdp_never(hassdp) == FALSE

\* The test `!msg_sdp` of "start"
StartMissesSdp(hassdp) == ~hassdp

\* "start": the answer to the offer of "play"
Start(hassdp) ==
    /\ Popped("start")
    /\ UNCHANGED xvars
    /\ LET s == Head(queue).h
       IN  IF ~sess[s].aframes /\ ~sess[s].vframes
           THEN ErrorReply(0, hassdp, JANUS_TRANSCODE_ERROR_INVALID_STATE)
           ELSE IF StartMissesSdp(hassdp)
           THEN ErrorReply(0, hassdp, JANUS_TRANSCODE_ERROR_MISSING_ELEMENT)
           ELSE /\ Pop
                /\ last' = [Request(0, hassdp) EXCEPT !.status = "playing"]
                /\ UNCHANGED <<sess, host, pacers, obs, ent, catalog, nfo, mjr, lst, ub>>

\* "stop": the reply, and gateway->close_pc
Stop ==
    /\ Popped("stop")
    /\ UNCHANGED xvars
    /\ LET s == Head(queue).h
           e == sess[s].transcoding
       IN  IF Dangling(e) THEN Crash
           ELSE /\ Pop
                /\ host' = [host EXCEPT ![s] = "closing"]
                /\ obs' = [obs EXCEPT ![s] = ObsStop(@)]
                /\ last' = [Request(0, FALSE) EXCEPT
                              !.status = "stopped", !.rid = IF e # 0 THEN ent[e].id ELSE 0]
                /\ UNCHANGED <<sess, pacers, ent, catalog, nfo, mjr, lst, ub>>

\* A request that is none of the four: lines 1816-1821
UnknownRequest ==
    /\ Popped("bogus")
    /\ ErrorReply(0, FALSE, JANUS_TRANSCODE_ERROR_INVALID_REQUEST)

\* ------------------------------------------- janus_transcode_get_frames
\* An MJR file is a sequence of records: an 8-byte tag, a 2-byte length and
\* `len` bytes of payload.  tag is the second byte of the tag ("E", "J", or
\* "?" for any other); ok tells whether a header payload is well formed (the
\* JSON of an info header with its fields, the 'a'/'v' of an old header).
\* seq and ts are the 16-bit and 32-bit words that the 16-byte read of the
\* parser finds at offsets 2 and 4: the sequence number and timestamp of a
\* packet record and, for an info header, which is read past its JSON, bytes
\* 4..7 of the tag of the record that follows.
\* A guint32 holds values up to 2^32 - 1, TLC's integers stop at 2^31 - 1:
\* timestamps are counted in units of TsUnit ticks, and the files examined
\* have timestamps that are multiples of it.
TsUnit == 2
Million == (1000 * 1000) \div TsUnit
ResetGap == (2 * 1000 * 1000 * 1000) \div TsUnit
SeqGap == 10000
RtpMin == 12
OldHeaderLen == 5
InfoLen == 20
\* "ECHO", the last four bytes of the tag 'MEETECHO' of a frame, as a guint32
TagWord == 1162037327 \div TsUnit

\* Timestamps of the files examined: 0, 1000, 3 000 000 000 and 4 294 966 000 ticks
TsVals == {0, 500, 1500 * 1000 * 1000, 2147483000}
SeqVals == {0, 1, SeqGap, 65535}

Packet(ts, seq) == [tag |-> "E", len |-> RtpMin, ok |-> TRUE, ts |-> ts, seq |-> seq]
OldHeader(ok) == [tag |-> "E", len |-> OldHeaderLen, ok |-> ok, ts |-> 0, seq |-> 0]
InfoHeader(ok, word) == [tag |-> "J", len |-> InfoLen, ok |-> ok, ts |-> word, seq |-> 0]
BadTag == [tag |-> "?", len |-> RtpMin, ok |-> TRUE, ts |-> 0, seq |-> 0]

Records ==
    {Packet(ts, seq) : ts \in TsVals, seq \in SeqVals}
        \cup {OldHeader(TRUE), OldHeader(FALSE), InfoHeader(TRUE, TagWord), InfoHeader(FALSE, TagWord), BadTag}

MjrFiles == UNION {[1..n -> Records] : n \in 1..MaxRecs}

\* Pass 1, the state of the loop: parsed_header, first_ts, last_ts, reset, and
\* whether the function returned NULL from inside the loop.  `wrapped`, which
\* the C code does not keep, notes that the branch of line 2176 was taken.
Pass1Start ==
    [parsed_header |-> FALSE, first_ts |-> 0, last_ts |-> 0, reset |-> 0, null |-> FALSE,
     wrapped |-> FALSE]

\* Lines 2166-2184: the timestamp of one record enters first_ts, reset, last_ts
ReadHeader(st, ts) ==
    IF st.last_ts = 0
    THEN [st EXCEPT !.first_ts = IF ts > Million THEN ts - Million ELSE ts,
                    !.last_ts = ts]
    ELSE [st EXCEPT !.reset = IF ts < st.last_ts
                              THEN (IF st.last_ts - ts > ResetGap THEN ts ELSE @)
                              ELSE (IF ts < @ THEN ts ELSE @),
                    !.wrapped = @ \/ (ts < st.last_ts /\ st.last_ts - ts > ResetGap),
                    !.last_ts = ts]

RECURSIVE Pass1(_, _, _)
Pass1(F, i, st) ==
    IF i > Len(F) THEN st
    ELSE LET r == F[i]
         IN  IF r.tag = "E" /\ r.len = OldHeaderLen /\ ~st.parsed_header
             THEN IF r.ok THEN Pass1(F, i + 1, [st EXCEPT !.parsed_header = TRUE])
                  ELSE [st EXCEPT !.null = TRUE]
             ELSE IF r.tag = "E" /\ r.len < RtpMin
             THEN Pass1(F, i + 1, st)
             ELSE IF r.tag = "E"
             THEN Pass1(F, i + 1, ReadHeader(st, r.ts))
             ELSE IF r.tag = "J" /\ r.len > 0 /\ ~st.parsed_header
             THEN IF r.ok THEN Pass1(F, i + 1, ReadHeader([st EXCEPT !.parsed_header = TRUE], r.ts))
                  ELSE [st EXCEPT !.null = TRUE]
             ELSE IF r.tag = "J"
             THEN Pass1(F, i + 1, ReadHeader(st, r.ts))
             ELSE [st EXCEPT !.null = TRUE]

\* p->ts, a guint64: hi counts the 2^32 added to a post-reset timestamp
ExtTs(st, ts) ==
    IF st.reset = 0 THEN [hi |-> 0, lo |-> ts]
    ELSE IF ts > st.first_ts THEN [hi |-> 0, lo |-> ts]
    ELSE [hi |-> 1, lo |-> ts]

TsLess(a, b) == a.hi < b.hi \/ (a.hi = b.hi /\ a.lo < b.lo)

abs(x) == IF x < 0 THEN -x ELSE x

\* The tests of lines 2248, 2264 and 2278: p goes right after tmp
GoesAfter(tmp, p) ==
    \/ TsLess(tmp.ts, p.ts)
    \/ /\ tmp.ts = p.ts
       /\ \/ tmp.seq < p.seq /\ abs(tmp.seq - p.seq) < SeqGap
          \/ tmp.seq > p.seq /\ abs(tmp.seq - p.seq) > SeqGap

\* Lines 2239-2303: the walk back from `last` (k is tmp), and the insertion
RECURSIVE Insert(_, _, _)
Insert(list, k, p) ==
    IF k = 0 THEN <<p>> \o list
    ELSE IF GoesAfter(list[k], p)
    THEN SubSeq(list, 1, k) \o <<p>> \o SubSeq(list, k + 1, Len(list))
    ELSE Insert(list, k - 1, p)

\* Line 2202: pass 2 skips the record
Skipped_short(r) == r.tag = "J" \/ r.len <= RtpMin

Skipped(r) == r.tag = "J" \/ r.len < RtpMin

\* Lines 2191-2307: offset is the position of the record that starts at F[i];
\* rec, which the C node does not have, names the record a node was made from.
RECURSIVE Pass2(_, _, _, _, _)
Pass2(F, i, offset, st, list) ==
    IF i > Len(F) THEN list
    ELSE LET r == F[i]
             payload == offset + 8 + 2
         IN  IF Skipped(r) THEN Pass2(F, i + 1, payload + r.len, st, list)
             ELSE LET p == [seq |-> r.seq, ts |-> ExtTs(st, r.ts), len |-> r.len,
                            offset |-> payload, rec |-> i]
                  IN  Pass2(F, i + 1, payload + r.len, st, Insert(list, Len(list), p))

\* The list janus_transcode_get_frames returns for file F, <<>> being NULL
get_frames(F) ==
    LET st == Pass1(F, 1, Pass1Start)
    IN  IF st.null THEN <<>> ELSE Pass2(F, 1, 0, st, <<>>)

\* janus_transcode_get_frames is called on the file
GetFrames ==
    /\ ~parse.done
    /\ parse' = [parse EXCEPT !.done = TRUE, !.list = get_frames(parse.file)]
    /\ UNCHANGED <<sess, host, pacers, obs, ent, catalog, nfo, mjr, queue, lst, last, ub, rtp, tear, pace, work>>

\* ------------------------------------------------- the RTP path of a capture
\* One handle: the fields of its janus_transcode_session that the RTP callback
\* reads and writes.  capturing is `transcoder && transcoding`; ssrc is
\* session->ssrc[0..2]; substream and target are sim_context.substream and
\* sim_context.substream_target; now is janus_get_monotonic_time().
\* What the model adds to watch the callback: out, what the last step handed
\* to the writer (rc) and the sink (pub), whether it went through the feedback
\* step (fb) and the REMB it sent (remb), -1 for none; fed, the video packets
\* that went through the feedback step so far (counted up to RampLen + 1);
\* remb_at, the time of the last REMB; saved and first_vssrc, the rec_vssrc of
\* the first video packet saved in the capture.
G_USEC_PER_SEC == 1000000
RampLen == 4
RembPeriod == 5 * G_USEC_PER_SEC
DefaultBitrate == 1024 * 1024
DefaultKeyframeInterval == 15000
Bitrates == {DefaultBitrate, 500000, 0}

\* The SSRCs of the three simulcast substreams of the peer, and the SSRC of
\* its audio stream
Ssrcs == <<11, 12, 13>>
AudioSsrc == 10
NoSsrcs == <<0, 0, 0>>
\* Values g_random_int() may return
RandomInts == {0, 21, 22}

NoOut == [media |-> "none", rc |-> -1, pub |-> -1, fb |-> FALSE, remb |-> -1]

\* janus_transcode_create_session, at time t
RtpSession(t) ==
    [st |-> "live", capturing |-> FALSE, ssrc |-> NoSsrcs, substream |-> -1, target |-> 0,
     rec_vssrc |-> 0, video_remb_startup |-> RampLen, video_remb_last |-> t,
     video_bitrate |-> DefaultBitrate, video_keyframe_request_last |-> 0,
     video_keyframe_interval |-> DefaultKeyframeInterval, now |-> t,
     out |-> NoOut, fed |-> 0, remb_at |-> 0, saved |-> FALSE, first_vssrc |-> 0]

\* The test of line 1194
Simulcasting(r) == r.ssrc[1] # 0

\* janus_rtp_simulcasting_context_process_rtp on a packet of substream k: a
\* keyframe of a substream nearer to the target makes it the current one; the
\* packet is relayed iff it belongs to the current substream.
SwitchTo(r, k, key) ==
    IF key /\ k # r.substream /\ k <= r.target /\ (k > r.substream \/ r.substream > r.target)
    THEN k ELSE r.substream

\* The test of line 1151: a REMB is due
RembDue_always(startup, elapsed) == TRUE

RembDue(startup, elapsed) == startup > 0 \/ elapsed >= RembPeriod

\* janus_transcode_send_rtcp_feedback(handle, video, ...) on session r
send_rtcp_feedback(r, video) ==
    IF ~video THEN [r EXCEPT !.out.fb = TRUE]
    ELSE LET elapsed == r.now - r.video_remb_last
             remb_rampup == r.video_remb_startup > 0
             due == RembDue(r.video_remb_startup, elapsed)
             bitrate == IF remb_rampup THEN r.video_bitrate \div r.video_remb_startup
                        ELSE r.video_bitrate
             interval == (r.video_keyframe_interval \div 1000) * G_USEC_PER_SEC
         IN  [r EXCEPT !.video_remb_startup = IF due /\ remb_rampup THEN @ - 1 ELSE @,
                       !.video_remb_last = IF due THEN r.now ELSE @,
                       !.video_keyframe_request_last =
                           IF r.now - @ >= interval THEN r.now ELSE @,
                       !.out.fb = TRUE,
                       !.out.remb = IF due THEN bitrate ELSE -1,
                       !.remb_at = IF due THEN r.now ELSE @,
                       !.fed = IF @ <= RampLen THEN @ + 1 ELSE @]

\* Lines 1194-1231 on a video packet of substream k while simulcasting; rnd is
\* what g_random_int() returns if it is called.
SimulcastPacket(r, k, key, rnd) ==
    LET sub == SwitchTo(r, k, key)
        save == k = sub
        vssrc == IF r.rec_vssrc = 0 THEN rnd ELSE r.rec_vssrc
    IN  IF ~save THEN [r EXCEPT !.substream = sub, !.out = [NoOut EXCEPT !.media = "video"]]
        ELSE send_rtcp_feedback(
                 [r EXCEPT !.substream = sub, !.rec_vssrc = vssrc,
                           !.out = [NoOut EXCEPT !.media = "video", !.rc = vssrc, !.pub = Ssrcs[k + 1]],
                           !.saved = TRUE,
                           !.first_vssrc = IF r.saved THEN @ ELSE vssrc], TRUE)

\* (a variant that hands the packet to the writer only)
PlainPacket_writer_only(r, video, ssrc) ==
    send_rtcp_feedback(
        [r EXCEPT !.out = [NoOut EXCEPT !.media = IF video THEN "video" ELSE "audio",
                                        !.rc = ssrc]], video)

\* Lines 1232-1235: a packet outside simulcast goes to its writer and the sink
PlainPacket(r, video, ssrc) ==
    send_rtcp_feedback(
        [r EXCEPT !.out = [NoOut EXCEPT !.media = IF video THEN "video" ELSE "audio",
                                        !.rc = ssrc, !.pub = ssrc]], video)

RtpOthers == UNCHANGED <<sess, host, pacers, obs, ent, catalog, nfo, mjr, queue, lst, last, ub, parse, tear, pace, work>>

\* janus_transcode_create_session
RtpCreateSession ==
    /\ rtp.st = "none"
    /\ rtp' = RtpSession(0)
    /\ RtpOthers

\* The `transcode` request accepted: the capture starts, with the simulcast
\* SSRCs if the client negotiated simulcast.
RtpTranscode(simulcast) ==
    /\ rtp.st = "live"
    /\ ~rtp.capturing
    /\ rtp' = [rtp EXCEPT !.capturing = TRUE,
                          !.ssrc = IF simulcast THEN Ssrcs ELSE @,
                          !.target = IF simulcast THEN 2 ELSE @,
                          !.out = NoOut, !.saved = FALSE, !.first_vssrc = 0]
    /\ RtpOthers

\* janus_transcode_incoming_rtp: a packet of the peer, audio or video, for
\* video of substream k, a keyframe or not
RtpIncoming(video, k, key, rnd) ==
    /\ rtp.st = "live"
    /\ rtp.capturing
    /\ rtp' = IF video /\ Simulcasting(rtp) THEN SimulcastPacket(rtp, k, key, rnd)
              ELSE PlainPacket(rtp, video, IF video THEN Ssrcs[k + 1] ELSE AudioSsrc)
    /\ RtpOthers

\* The `configure` request: video-bitrate-max b (-1: not given) and, if kf,
\* video-keyframe-interval, which line 1007 replaces by 1000
RtpConfigure(b, kf) ==
    /\ rtp.st = "live"
    /\ rtp' = [rtp EXCEPT !.video_bitrate = IF b # -1 THEN b ELSE @,
                          !.video_keyframe_interval = IF kf THEN 1000 ELSE @,
                          !.out = NoOut]
    /\ RtpOthers

\* janus_transcode_hangup_media_internal: the end of the capture
RtpHangupMedia ==
    /\ rtp.st = "live"
    /\ rtp.capturing
    /\ rtp' = [rtp EXCEPT !.capturing = FALSE, !.ssrc = NoSsrcs, !.substream = -1, !.target = 0,
                          !.out = NoOut]
    /\ RtpOthers

\* Time passes
RtpTick ==
    /\ rtp.st = "live"
    /\ rtp.now < MaxNow * G_USEC_PER_SEC
    /\ rtp' = [rtp EXCEPT !.now = @ + G_USEC_PER_SEC, !.out = NoOut]
    /\ RtpOthers

\* ------------------------------------- inside hangup_media_internal
\* One handle, and the host threads that call janus_transcode_hangup_media and
\* janus_transcode_destroy_session on it, one statement at a time, while the
\* worker handles `transcode` and `stop` and the host calls setup_media.
\* Fields of `tear`: st, active, destroyed, hangingup, arc, vrc, pub (a writer
\* object, 0 for NULL), transcoder, transcoding (an entry, 0 for NULL) are the
\* session; rec the entries, listed when in the catalog; smutex and rmutex the
\* holders of sessions_mutex and of the session's rec_mutex; pc, call and rc
\* the position, the callback and the local `rc` of each thread; setup a
\* setup_media that has unlocked and not yet reset the latch; closes and
\* destroys count the calls made on each writer object; nw the objects made;
\* io and iow the position of a host I/O thread inside incoming_rtp and the
\* pointer it has read; late what that thread did that it must not do.
Threads == 1..NumThreads
Captures == 1..MaxCaptures
\* The entries: one for each capture, and one for a .nfo a scan finds
ScanRec == MaxCaptures + 1
Recs == 1..ScanRec
Writers == 1..(3 * MaxCaptures)
WriterFields == {"arc", "vrc", "pub"}

\* Thread t is at statement `where` (of the block of writer field f)
Pc(where) == [at |-> where, f |-> "-"]
PcF(where, f) == [at |-> where, f |-> f]

BlankRec == [listed |-> FALSE, completed |-> FALSE, offer |-> FALSE, ref |-> 0]

TearSession ==
    [st |-> "live", active |-> FALSE, destroyed |-> 0, hangingup |-> 0,
     arc |-> 0, vrc |-> 0, pub |-> 0, transcoder |-> FALSE, transcoding |-> 0,
     rec |-> [e \in Recs |-> BlankRec], smutex |-> 0, rmutex |-> 0,
     pc |-> [t \in Threads |-> Pc("idle")], call |-> [t \in Threads |-> "none"],
     rc |-> [t \in Threads |-> 0], setup |-> FALSE, stopping |-> FALSE,
     closes |-> [w \in Writers |-> 0], destroys |-> [w \in Writers |-> 0], nw |-> 0,
     io |-> Pc("idle"), iow |-> 0, late |-> {}]

TearOthers == UNCHANGED <<sess, host, pacers, obs, ent, catalog, nfo, mjr, queue, lst, last, ub, parse, rtp, pace, work>>

At(t, where) == tear.st # "none" /\ tear.pc[t].at = where
AtF(t, where, f) == tear.st # "none" /\ tear.pc[t] = PcF(where, f)

\* What lines 1308, 1315 and 1322 leave in the session's pointer to writer w
Taken_kept(w) == w

Taken(w) == 0

\* The statement after the block of a writer field
AfterField(f) ==
    IF f = "arc" THEN PcF("take", "vrc")
    ELSE IF f = "vrc" THEN PcF("take", "pub") ELSE Pc("unlockrec")

\* The session's pointer named f
Field(f) == IF f = "arc" THEN tear.arc ELSE IF f = "vrc" THEN tear.vrc ELSE tear.pub

SetField(T, f, w) ==
    IF f = "arc" THEN [T EXCEPT !.arc = w]
    ELSE IF f = "vrc" THEN [T EXCEPT !.vrc = w] ELSE [T EXCEPT !.pub = w]

\* janus_transcode_create_session
TearCreateSession ==
    /\ tear.st = "none"
    /\ tear' = TearSession
    /\ TearOthers

\* The worker handles an accepted `transcode`: a new entry, in the catalog,
\* and the three writers (audio, video, sink) of a capture with both media
TearTranscode ==
    /\ tear.st = "live"
    /\ tear.nw + 3 <= 3 * MaxCaptures
    /\ LET e == (tear.nw \div 3) + 1
       IN  tear' = [tear EXCEPT !.rec[e] = [listed |-> TRUE, completed |-> FALSE, offer |-> FALSE, ref |-> 2],
                                !.arc = tear.nw + 1, !.vrc = tear.nw + 2, !.pub = tear.nw + 3,
                                !.transcoder = TRUE, !.transcoding = e, !.nw = @ + 3]
    /\ TearOthers

\* The worker handles `stop`: gateway->close_pc, the host will call hangup_media
TearStop ==
    /\ tear.st = "live"
    /\ ~tear.stopping
    /\ tear' = [tear EXCEPT !.stopping = TRUE]
    /\ TearOthers

\* janus_transcode_setup_media, up to the unlock of sessions_mutex
TearSetupMedia ==
    /\ tear.st = "live"
    /\ tear.smutex = 0
    /\ tear.destroyed = 0
    /\ ~tear.setup
    /\ tear' = [tear EXCEPT !.setup = TRUE]
    /\ TearOthers

\* janus_transcode_setup_media, after the unlock: the latch is reset
TearSetupLatch ==
    /\ tear.st # "none"
    /\ tear.setup
    /\ tear' = [tear EXCEPT !.setup = FALSE, !.hangingup = 0, !.active = TRUE]
    /\ TearOthers

\* The host calls janus_transcode_hangup_media or janus_transcode_destroy_session
\* on thread t
TearCall(t, call) ==
    /\ At(t, "idle")
    /\ call = "destroy" => \A u \in Threads : tear.call[u] # "destroy"
    /\ tear' = [tear EXCEPT !.pc[t] = Pc("lock"), !.call[t] = call,
                            !.stopping = IF call = "hangup" THEN FALSE ELSE @]
    /\ TearOthers

\* janus_mutex_lock(&sessions_mutex) and janus_transcode_lookup_session
TearLock(t) ==
    /\ At(t, "lock")
    /\ tear.smutex = 0
    /\ tear' = [tear EXCEPT !.smutex = t,
                            !.pc[t] = IF tear.st = "live" THEN Pc("enter") ELSE Pc("unlock")]
    /\ TearOthers

\* Lines 1288-1291: active, the test of destroyed, the latch
TearEnter(t) ==
    /\ At(t, "enter")
    /\ tear' = IF tear.destroyed # 0 \/ tear.hangingup # 0
               THEN [tear EXCEPT !.active = FALSE, !.pc[t] = Pc("return")]
               ELSE [tear EXCEPT !.active = FALSE, !.hangingup = 1, !.pc[t] = Pc("lockrec")]
    /\ TearOthers

\* Line 1305
TearLockRec(t) ==
    /\ At(t, "lockrec")
    /\ tear.rmutex = 0
    /\ tear' = [tear EXCEPT !.rmutex = t, !.pc[t] = PcF("take", "arc")]
    /\ TearOthers

\* Lines 1306-1308, 1313-1315, 1320-1322: the pointer is read and cleared
TearTake(t, f) ==
    /\ AtF(t, "take", f)
    /\ tear' = IF Field(f) = 0
               THEN [tear EXCEPT !.pc[t] = AfterField(f)]
               ELSE [SetField(tear, f, Taken(Field(f))) EXCEPT !.rc[t] = Field(f), !.pc[t] = PcF("close", f)]
    /\ TearOthers

\* Lines 1309, 1316, 1323: janus_transcoder_close(rc)
TearClose(t, f) ==
    /\ AtF(t, "close", f)
    /\ tear' = [tear EXCEPT !.closes[tear.rc[t]] = @ + 1, !.pc[t] = PcF("destroy", f)]
    /\ TearOthers

\* Lines 1311, 1318, 1325: janus_transcoder_destroy(rc)
TearDestroy(t, f) ==
    /\ AtF(t, "destroy", f)
    /\ tear' = [tear EXCEPT !.destroys[tear.rc[t]] = @ + 1, !.rc[t] = 0, !.pc[t] = AfterField(f)]
    /\ TearOthers

\* Line 1327
TearUnlockRec(t) ==
    /\ At(t, "unlockrec")
    /\ tear' = [tear EXCEPT !.rmutex = 0, !.pc[t] = Pc("nfo")]
    /\ TearOthers

\* Lines 1328-1367: the .nfo is written if the session captures and fopen
\* succeeds (ok)
TearNfo(t, ok) ==
    /\ At(t, "nfo")
    /\ tear' = [tear EXCEPT !.pc[t] = IF tear.transcoder /\ tear.transcoding # 0 /\ ok
                                      THEN Pc("completed") ELSE Pc("unref")]
    /\ TearOthers

\* Line 1369
TearCompleted(t) ==
    /\ At(t, "completed")
    /\ tear' = IF tear.transcoding = 0 THEN [tear EXCEPT !.pc[t] = Pc("offer")]
               ELSE [tear EXCEPT !.rec[tear.transcoding].completed = TRUE, !.pc[t] = Pc("offer")]
    /\ TearOthers

\* Line 1371: janus_transcode_generate_offer
TearOffer(t) ==
    /\ At(t, "offer")
    /\ tear' = IF tear.transcoding = 0 THEN [tear EXCEPT !.pc[t] = Pc("unref")]
               ELSE [tear EXCEPT !.rec[tear.transcoding].offer = TRUE, !.pc[t] = Pc("unref")]
    /\ TearOthers

\* Lines 1379-1382
TearUnref(t) ==
    /\ At(t, "unref")
    /\ tear' = IF tear.transcoding = 0 THEN [tear EXCEPT !.pc[t] = Pc("latch")]
               ELSE [tear EXCEPT !.rec[tear.transcoding].ref = @ - 1, !.transcoding = 0,
                                 !.pc[t] = Pc("latch")]
    /\ TearOthers

\* Line 1389
TearLatch(t) ==
    /\ At(t, "latch")
    /\ tear' = [tear EXCEPT !.hangingup = 0, !.pc[t] = Pc("return")]
    /\ TearOthers

\* The return to the callback: destroy_session removes the session from the
\* table, which marks it destroyed; both unlock sessions_mutex.
TearReturn(t) ==
    /\ At(t, "return") \/ At(t, "unlock")
    /\ tear' = IF tear.call[t] = "destroy" /\ tear.pc[t].at = "return"
               THEN [tear EXCEPT !.st = "gone", !.destroyed = 1, !.smutex = 0,
                                 !.pc[t] = Pc("idle"), !.call[t] = "done"]
               ELSE [tear EXCEPT !.smutex = 0, !.pc[t] = Pc("idle"),
                                 !.call[t] = IF @ = "destroy" THEN "done" ELSE "none"]
    /\ TearOthers

\* A scan of the directory finds a .nfo whose id is not in the catalog: the
\* entry gets its offer, is marked completed and is then inserted.
TearUpdate ==
    /\ tear.st # "none"
    /\ ~tear.rec[ScanRec].listed
    /\ tear' = [tear EXCEPT !.rec[ScanRec] = [listed |-> TRUE, completed |-> TRUE, offer |-> TRUE, ref |-> 1]]
    /\ TearOthers

\* janus_transcode_incoming_rtp on a host I/O thread, one statement at a time.
\* It takes neither sessions_mutex nor rec_mutex.
\* Lines 1190-1193: the tests of destroyed, transcoder and transcoding; a
\* video packet of a simulcast goes on to line 1202, any other to line 1233.
TearRtpCheck(simulcast) ==
    /\ tear.st = "live"
    /\ tear.io = Pc("idle")
    /\ tear.destroyed = 0 /\ tear.transcoder /\ tear.transcoding # 0
    /\ tear' = [tear EXCEPT !.io = IF simulcast THEN Pc("vcodec") ELSE PcF("read", "vrc")]
    /\ TearOthers

\* Lines 1202 and 1216: session->transcoding->vcodec
TearRtpEntry ==
    /\ tear.st # "none"
    /\ tear.io = Pc("vcodec")
    /\ tear' = [tear EXCEPT !.io = PcF("read", "vrc"),
                            !.late = IF tear.transcoding = 0 THEN @ \cup {"entry"} ELSE @]
    /\ TearOthers

\* The pointer a call is made with: the field as it is, no mutex taken
RtpPointer(f) == Field(f)

\* Lines 1225, 1228, 1233, 1234: the argument session->vrc or session->pub is
\* read
TearRtpRead(f) ==
    /\ tear.st # "none"
    /\ tear.io = PcF("read", f)
    /\ tear' = [tear EXCEPT !.io = PcF("save", f), !.iow = RtpPointer(f)]
    /\ TearOthers

\* janus_transcoder_save_frame and janus_transcoder_pub_save_frame run on the
\* pointer read
TearRtpSave(f) ==
    /\ tear.st # "none"
    /\ tear.io = PcF("save", f)
    /\ LET w == tear.iow
           what == IF w = 0 THEN {}
                   ELSE IF tear.destroys[w] > 0 THEN {"freed"}
                   ELSE IF tear.closes[w] > 0 THEN {"closed"} ELSE {}
       IN  tear' = [tear EXCEPT !.io = IF f = "vrc" THEN PcF("read", "pub") ELSE Pc("idle"),
                                !.iow = 0, !.late = @ \cup what]
    /\ TearOthers

\* ------------------------------------------------------ the playout thread
\* One handle that replays, the worker that handles its `play`, the host
\* callbacks on it and the playout threads setup_media launches for it.
\* Fields of `pace`: st, active, destroyed, transcoding (1: the entry, 0: NULL),
\* aframes and vframes (the list of which `play`, 0 for NULL) are the session;
\* lists what each `play` parsed, as the timestamps of the nodes; freed how
\* often each list was freed; viewers how often the session is in
\* rec->viewers; rref and sref the reference counts of the entry and of the
\* session; closes the gateway->close_pc calls; th the threads; ub a freed
\* node or a NULL pointer was dereferenced; up that the host has a
\* PeerConnection up for the handle (setup_media was called for it and
\* hangup_media not yet).
\* Time is kept relative to the clock: apassed and vpassed are now - abefore
\* and now - vbefore, asince and vsince the time since the thread last relayed
\* a packet of the medium, all in microseconds and followed up to a maximum.
NumPacers == 2
MaxPlays == 2
MaxPassedTicks == 3
SleepUsec == 5000
Slack == 5000
AudioKhz == 48
VideoKhz == 90
MaxPassed == MaxPassedTicks * SleepUsec
MaxSince == (MaxPassedTicks - 1) * SleepUsec

Pacers == 1..NumPacers
Plays == 1..MaxPlays

\* Frame lists janus_transcode_get_frames may return (<<>>: NULL), as the
\* timestamps of their nodes: 10 ms apart at 48 kHz and at 90 kHz
AudioLists == {<<>>, <<0, 480, 960>>}
VideoLists == {<<>>, <<0, 0, 900>>, <<0, 900, 900>>}

\* A pointer to node i of the list of play g; NullNode is NULL
NullNode == [g |-> 0, i |-> 0]
HeadOf(g) == IF g = 0 THEN NullNode ELSE [g |-> g, i |-> 1]

NoThread ==
    [pc |-> "none", audio |-> NullNode, video |-> NullNode, heads |-> [a |-> 0, v |-> 0],
     asent |-> FALSE, vsent |-> FALSE, apassed |-> 0, vpassed |-> 0, asince |-> 0, vsince |-> 0,
     arelayed |-> <<>>, vrelayed |-> <<>>, end |-> "-", closed |-> 0]

PaceSession ==
    [st |-> "live", active |-> FALSE, destroyed |-> 0, transcoding |-> 0, aframes |-> 0, vframes |-> 0,
     lists |-> [g \in Plays |-> [a |-> <<>>, v |-> <<>>]],
     freed |-> [g \in Plays |-> [a |-> 0, v |-> 0]],
     plays |-> 0, viewers |-> 0, rref |-> 1, sref |-> 1, closes |-> 0,
     th |-> [t \in Pacers |-> NoThread], ub |-> FALSE, up |-> FALSE]

PaceOthers == UNCHANGED <<sess, host, pacers, obs, ent, catalog, nfo, mjr, queue, lst, last, ub, parse, rtp, tear, work>>

\* (a variant of node->next that passes over a node)
NextIn_skips(list, n) == IF n.i + 1 < Len(list) THEN [g |-> n.g, i |-> n.i + 2] ELSE NullNode

\* The list a node belongs to, and node->next
AudioOf(n) == IF n.g = 0 THEN <<>> ELSE pace.lists[n.g].a
VideoOf(n) == IF n.g = 0 THEN <<>> ELSE pace.lists[n.g].v

NextIn(list, n) == IF n.i < Len(list) THEN [g |-> n.g, i |-> n.i + 1] ELSE NullNode

\* Lines 2437-2438 and 2496-2497: the distance of node i from its predecessor,
\* in microseconds
ts_diff(list, i, khz) == ((list[i] - list[i - 1]) * 1000) \div khz

\* Lines 2448 and 2507: it is time to send
Due(passed, d) == ~(passed < d - Slack)

\* Lines 2452-2460 and 2511-2519, "update the reference time": tv_usec takes
\* ts_diff % 1000000, tv_sec the whole seconds, and the number of whole seconds
\* is taken off tv_usec again.
Advance(passed, d) == passed - (d - (d \div 1000000))

\* (a variant that relays one packet per round)
GroupEnd_single(list, i) == i

\* Lines 2479 and 2522, `while(video && video->ts == ts)`: the last node of the
\* run of nodes that starts at node i and shares its timestamp
RECURSIVE GroupEnd(_, _)
GroupEnd(list, i) ==
    IF i < Len(list) /\ list[i + 1] = list[i] THEN GroupEnd(list, i + 1) ELSE i

Later(x, cap) == IF x + SleepUsec > cap THEN cap ELSE x + SleepUsec

PacerRuns(t) == pace.th[t].pc \notin {"none", "failed", "done"}

\* janus_transcode_create_session
PaceCreateSession ==
    /\ pace.st = "none"
    /\ pace' = PaceSession
    /\ PaceOthers

\* The worker handles `play` of the entry, whose files parse to al and vl:
\* lines 1716-1758
PacePlay(al, vl) ==
    /\ pace.st = "live"
    /\ ~pace.ub
    /\ pace.plays < MaxPlays
    /\ LET g == pace.plays + 1
       IN  pace' = IF al = <<>> /\ vl = <<>>
                   THEN [pace EXCEPT !.plays = g, !.aframes = 0, !.vframes = 0, !.rref = @ + 1]
                   ELSE [pace EXCEPT !.plays = g, !.lists[g] = [a |-> al, v |-> vl],
                                     !.aframes = IF al = <<>> THEN 0 ELSE g,
                                     !.vframes = IF vl = <<>> THEN 0 ELSE g,
                                     !.transcoding = 1, !.viewers = @ + 1, !.rref = @ + 1]
    /\ PaceOthers

\* janus_transcode_setup_media on the replaying session: thread t is
\* launched, unless g_thread_try_new fails (ok false, the thread is "failed")
PaceSetupMedia(t, ok) ==
    /\ pace.st = "live"
    /\ ~pace.ub
    /\ pace.destroyed = 0
    /\ ~pace.up
    /\ pace.th[t].pc = "none"
    /\ \A u \in Pacers : u < t => pace.th[u].pc # "none"
    /\ pace' = IF ok THEN [pace EXCEPT !.up = TRUE, !.active = TRUE, !.sref = @ + 1, !.th[t].pc = "start"]
               ELSE [pace EXCEPT !.up = TRUE, !.active = TRUE, !.closes = @ + 1, !.th[t].pc = "failed"]
    /\ PaceOthers

\* What janus_transcode_hangup_media_internal does to a replaying session
hangup_replay(P) ==
    IF P.destroyed # 0 THEN [P EXCEPT !.active = FALSE]
    ELSE [P EXCEPT !.active = FALSE, !.transcoding = 0,
                   !.rref = IF P.transcoding # 0 THEN @ - 1 ELSE @]

\* janus_transcode_hangup_media
PaceHangupMedia ==
    /\ pace.st = "live"
    /\ ~pace.ub
    /\ pace' = [hangup_replay(pace) EXCEPT !.up = FALSE]
    /\ PaceOthers

\* janus_transcode_destroy_session
PaceDestroySession ==
    /\ pace.st = "live"
    /\ ~pace.ub
    /\ pace' = [hangup_replay(pace) EXCEPT !.up = FALSE, !.st = "gone", !.destroyed = 1, !.sref = @ - 1]
    /\ PaceOthers

\* Lines 2326-2410: the thread starts; opens is whether fopen succeeds
PaceStart(t, opens) ==
    /\ pace.st # "none"
    /\ ~pace.ub
    /\ pace.th[t].pc = "start"
    /\ pace' = IF pace.transcoding = 0
               THEN [pace EXCEPT !.sref = @ - 1, !.th[t].pc = "done", !.th[t].end = "early"]
               ELSE IF (pace.aframes = 0 /\ pace.vframes = 0) \/ ~opens
               THEN [pace EXCEPT !.sref = @ - 1, !.th[t].pc = "done", !.th[t].end = "early"]
               ELSE [pace EXCEPT !.rref = @ + 1,
                                 !.th[t] = [NoThread EXCEPT
                                              !.pc = "loop",
                                              !.audio = HeadOf(pace.aframes), !.video = HeadOf(pace.vframes),
                                              !.heads = [a |-> pace.aframes, v |-> pace.vframes]]]
    /\ PaceOthers

\* Lines 2411-2418: the test of the loop, and g_usleep if the last round sent
\* nothing
PaceLoop(t) ==
    /\ pace.st # "none"
    /\ ~pace.ub
    /\ pace.th[t].pc = "loop"
    /\ LET T == pace.th[t]
           more == T.audio # NullNode \/ T.video # NullNode
       IN  pace' = IF pace.destroyed = 0 /\ pace.active /\ more
                   THEN [pace EXCEPT !.th[t].pc = IF ~T.asent /\ ~T.vsent THEN "sleep" ELSE "audio",
                                     !.th[t].asent = FALSE, !.th[t].vsent = FALSE]
                   ELSE [pace EXCEPT !.th[t].pc = "free",
                                     !.th[t].end = IF more THEN "stopped" ELSE "exhausted"]
    /\ PaceOthers

\* The clock advances by 5 ms: a sleeping thread wakes up
PaceTick ==
    /\ pace.st # "none"
    /\ ~pace.ub
    /\ pace' = [pace EXCEPT !.th = [t \in Pacers |->
                   LET T == pace.th[t]
                   IN  IF T.pc \in {"none", "failed", "start", "done"} THEN T
                       ELSE [T EXCEPT !.pc = IF @ = "sleep" THEN "audio" ELSE @,
                                      !.apassed = Later(@, MaxPassed), !.vpassed = Later(@, MaxPassed),
                                      !.asince = Later(@, MaxSince), !.vsince = Later(@, MaxSince)]]]
    /\ PaceOthers

\* Lines 2419-2474: the audio part of a round
PaceAudio(t) ==
    /\ pace.st # "none"
    /\ ~pace.ub
    /\ pace.th[t].pc = "audio"
    /\ LET T == pace.th[t]
           n == T.audio
           list == AudioOf(n)
           sent == [T EXCEPT !.pc = "video", !.asent = TRUE, !.asince = 0,
                             !.audio = NextIn(list, n), !.arelayed = Append(@, n.i)]
       IN  pace' = IF n = NullNode THEN [pace EXCEPT !.th[t].pc = "video"]
                   ELSE IF n = HeadOf(pace.aframes)
                   THEN IF pace.freed[n.g].a > 0 THEN [pace EXCEPT !.ub = TRUE]
                        ELSE [pace EXCEPT !.th[t] = [sent EXCEPT !.apassed = 0]]
                   ELSE IF pace.freed[n.g].a > 0 \/ n.i = 1 THEN [pace EXCEPT !.ub = TRUE]
                   ELSE LET d == ts_diff(list, n.i, AudioKhz)
                        IN  IF Due(T.apassed, d)
                            THEN [pace EXCEPT !.th[t] = [sent EXCEPT !.apassed = Advance(T.apassed, d)]]
                            ELSE [pace EXCEPT !.th[t].pc = "video"]
    /\ PaceOthers

\* Lines 2475-2537: the video part of a round
PaceVideo(t) ==
    /\ pace.st # "none"
    /\ ~pace.ub
    /\ pace.th[t].pc = "video"
    /\ LET T == pace.th[t]
           n == T.video
           list == VideoOf(n)
           j == GroupEnd(list, n.i)
           sent == [T EXCEPT !.pc = "loop", !.vsent = TRUE, !.vsince = 0,
                             !.video = NextIn(list, [g |-> n.g, i |-> j]),
                             !.vrelayed = @ \o [k \in 1..(j - n.i + 1) |-> n.i + k - 1]]
       IN  pace' = IF n = NullNode THEN [pace EXCEPT !.th[t].pc = "loop"]
                   ELSE IF n = HeadOf(pace.vframes)
                   THEN IF pace.freed[n.g].v > 0 THEN [pace EXCEPT !.ub = TRUE]
                        ELSE [pace EXCEPT !.th[t] = [sent EXCEPT !.vpassed = 0]]
                   ELSE IF pace.freed[n.g].v > 0 \/ n.i = 1 THEN [pace EXCEPT !.ub = TRUE]
                   ELSE LET d == ts_diff(list, n.i, VideoKhz)
                        IN  IF Due(T.vpassed, d)
                            THEN [pace EXCEPT !.th[t] = [sent EXCEPT !.vpassed = Advance(T.vpassed, d)]]
                            ELSE [pace EXCEPT !.th[t].pc = "loop"]
    /\ PaceOthers

\* Lines 2540-2564: the lists the session points to are freed, node by node,
\* and the pointers cleared
PaceFree(t) ==
    /\ pace.st # "none"
    /\ ~pace.ub
    /\ pace.th[t].pc = "free"
    /\ LET a == pace.aframes
           v == pace.vframes
           F1 == IF a = 0 THEN pace.freed ELSE [pace.freed EXCEPT ![a].a = @ + 1]
           F2 == IF v = 0 THEN F1 ELSE [F1 EXCEPT ![v].v = @ + 1]
       IN  pace' = [pace EXCEPT !.freed = F2, !.aframes = 0, !.vframes = 0, !.th[t].pc = "leave"]
    /\ PaceOthers

\* Lines 2566-2579: the viewer is removed, close_pc, the references go
PaceLeave(t) ==
    /\ pace.st # "none"
    /\ ~pace.ub
    /\ pace.th[t].pc = "leave"
    /\ pace' = [pace EXCEPT !.viewers = IF @ > 0 THEN @ - 1 ELSE 0,
                            !.closes = @ + 1, !.rref = @ - 1, !.sref = @ - 1,
                            !.th[t].pc = "done", !.th[t].closed = @ + 1]
    /\ PaceOthers

\* --------------------------------------------- the worker and the shutdown
\* The loop of janus_transcode_handler statement by statement, next to the
\* host threads that enqueue requests, destroy sessions and shut the plugin
\* down.  Fields of `work`: stopping is the flag of that name; q the queue
\* `messages`, of requests [h, n, ok] (h the handle, n the number of the
\* request in the order of the pushes, ok whether its handling accepts it) and
\* ExitMessage; pc where the worker is and msg the message it popped; gone[h]
\* that destroy_session has returned for handle h; hm the handle_message calls
\* that have passed their tests and not yet pushed; pushed the number of
\* requests pushed; after the requests pushed after the sentinel; handled the
\* requests the worker handled, in order; late those accepted for a session
\* that was destroyed by then; joined that janus_transcode_destroy has got
\* past g_thread_join.
MaxMsgs == 3

ExitMessage == [h |-> 0, n |-> 0, ok |-> FALSE]

WorkInit ==
    [st |-> "live", stopping |-> FALSE, q |-> <<>>, pc |-> "test", msg |-> ExitMessage,
     gone |-> [h \in Sess |-> FALSE], hm |-> {}, pushed |-> 0, after |-> {}, handled |-> <<>>,
     late |-> {}, joined |-> FALSE]

WorkOthers == UNCHANGED <<sess, host, pacers, obs, ent, catalog, nfo, mjr, queue, lst, last, ub, parse, rtp, tear, pace>>

\* janus_transcode_init: `initialized` is set and the worker launched
WorkStart ==
    /\ work.st = "none"
    /\ work' = WorkInit
    /\ WorkOthers

\* janus_transcode_handle_message up to the push: the tests of `stopping` and
\* of the session have passed (lines 905-925)
WorkHandleMessage(h, ok) ==
    /\ work.st = "live"
    /\ ~work.stopping /\ ~work.joined
    /\ ~work.gone[h]
    /\ work.pushed + Cardinality(work.hm) < MaxMsgs
    /\ [h |-> h, ok |-> ok] \notin work.hm
    /\ work' = [work EXCEPT !.hm = @ \cup {[h |-> h, ok |-> ok]}]
    /\ WorkOthers

\* (a variant that puts the message at the head of the queue)
WorkEnqueue_front(q, m) == <<m>> \o q

\* g_async_queue_push
WorkEnqueue(q, m) == Append(q, m)

\* handle_message, line 1028: the request is pushed (on a queue that
\* janus_transcode_destroy has released, nothing is)
WorkPush(m) ==
    /\ work.st = "live"
    /\ m \in work.hm
    /\ LET n == work.pushed + 1
       IN  work' = IF work.joined THEN [work EXCEPT !.hm = @ \ {m}]
                   ELSE [work EXCEPT !.hm = @ \ {m}, !.pushed = n,
                                     !.q = WorkEnqueue(@, [h |-> m.h, n |-> n, ok |-> m.ok]),
                                     !.after = IF work.stopping THEN @ \cup {n} ELSE @]
    /\ WorkOthers

\* janus_transcode_destroy_session, which runs under sessions_mutex
WorkDestroySession(h) ==
    /\ work.st = "live"
    /\ ~work.stopping /\ ~work.joined
    /\ ~work.gone[h]
    /\ work' = [work EXCEPT !.gone[h] = TRUE]
    /\ WorkOthers

\* janus_transcode_destroy, lines 762-766: `stopping` is set and the sentinel
\* pushed
WorkDestroy ==
    /\ work.st = "live"
    /\ ~work.stopping /\ ~work.joined
    /\ work' = [work EXCEPT !.stopping = TRUE, !.q = WorkEnqueue(@, ExitMessage)]
    /\ WorkOthers

\* janus_transcode_destroy, lines 767-781: g_thread_join returns, the tables
\* and the queue are released, `initialized` and `stopping` cleared
WorkJoin ==
    /\ work.st = "live"
    /\ work.stopping
    /\ work.pc = "exited"
    /\ work' = [work EXCEPT !.joined = TRUE, !.stopping = FALSE, !.q = <<>>]
    /\ WorkOthers

\* The test of the loop, line 1399
WorkTest ==
    /\ work.st = "live"
    /\ work.pc = "test"
    /\ work' = [work EXCEPT !.pc = IF work.stopping THEN "exited" ELSE "pop"]
    /\ WorkOthers

\* g_async_queue_pop, which waits while the queue is empty, and the test for
\* the sentinel: lines 1400-1402
WorkPop ==
    /\ work.st = "live"
    /\ work.pc = "pop"
    /\ work.q # <<>>
    /\ work' = [work EXCEPT !.q = Tail(@), !.msg = Head(work.q),
                            !.pc = IF Head(work.q) = ExitMessage THEN "exited" ELSE "lookup"]
    /\ WorkOthers

\* Lines 1407-1420: under sessions_mutex, the message of a session that is
\* not in the table any more, or is destroyed, is freed
WorkLookup ==
    /\ work.st = "live"
    /\ work.pc = "lookup"
    /\ work' = [work EXCEPT !.pc = IF work.gone[work.msg.h] THEN "test" ELSE "handle"]
    /\ WorkOthers

\* Lines 1421-1861: the request is handled, and the message freed.  An
\* accepted `transcode` or `play` opens the writers and the sink, inserts the
\* entry, binds the session.
WorkRequest ==
    /\ work.st = "live"
    /\ work.pc = "handle"
    /\ work' = [work EXCEPT !.pc = "test",
                            !.handled = Append(@, work.msg.n),
                            !.late = IF work.msg.ok /\ work.gone[work.msg.h]
                                     THEN @ \cup {work.msg.n} ELSE @]
    /\ WorkOthers

\* ------------------------------------------------------- specification
Sessions == \E s \in Sess : CreateSession(s) \/ DestroySession(s)

Media ==
    \/ \E s \in Sess : SetupMedia(s)
    \/ \E s \in Sess : HangupMedia(s)
    \/ \E s \in Sess, video \in BOOLEAN : IncomingRtp(s, video)

List ==
    \/ ListBegin
    \/ \E i \in Ids : ListStep(i)
    \/ ListEnd

\* The descriptors of the ids of I put in the directory, any file removed
DirectoryOf(I) ==
    \/ \E c \in {d \in NfoInputs : d.id \in I} : PlaceNfo(c)
    \/ \E f \in NfoNames : RemoveNfo(f)

Directory == DirectoryOf(Ids)

\* The worker on a "transcode" request that names or is given an id of I
HandleTranscodeOf(I) ==
    \/ TranscodeNoOffer
    \/ TranscodeBadOffer
    \/ TranscodeUpdate
    \/ \E id \in I : TranscodeExists(id)
    \/ \E want \in {0} \cup I, id \in I, amedia \in Directions, vmedia \in Directions :
         TranscodeNew(want, id, amedia, vmedia)

HandleTranscode == HandleTranscodeOf(Ids)

\* The worker on a "play" request that names an id of I, or none
HandlePlayOf(I) ==
    \/ PlayWithSdp
    \/ PlayRestart
    \/ \E id \in {0} \cup I : PlayNotFound(id)
    \/ \E id \in I : PlayNew(id)

HandlePlay == HandlePlayOf(Ids)

HandleStart == \E hassdp \in BOOLEAN : Start(hassdp)

Next ==
    \/ Sessions
    \/ Media
    \/ \E s \in Sess : PlayoutThread(s)
    \/ \E s \in Sess, verb \in Verbs : HandleMessage(s, verb)
    \/ List
    \/ Update
    \/ Directory
    \/ HandlerDrop
    \/ HandleTranscode
    \/ HandlePlay
    \/ HandleStart
    \/ Stop

Spec == Init /\ [][Next]_vars

\* The scenarios below work with one id
FirstId == {1}

\* Capturing clients: `transcode` and `stop`, and the callbacks of the
\* PeerConnection.
NextCapture ==
    \/ \E s \in Sess : CreateSession(s)
    \/ Media
    \/ \E s \in Sess, verb \in {"transcode", "stop"} : HandleMessage(s, verb)
    \/ HandleTranscodeOf(FirstId)
    \/ Stop

SpecCapture == Init /\ [][NextCapture]_vars

\* One capturing client, the capture directory, `list` and `update`.
NextCatalog ==
    \/ CreateSession(1)
    \/ HangupMedia(1)
    \/ \E verb \in {"transcode", "stop"} : HandleMessage(1, verb)
    \/ \E want \in {0} \cup FirstId, id \in FirstId, amedia \in Directions, vmedia \in Directions :
         TranscodeNew(want, id, amedia, vmedia)
    \/ Stop
    \/ List
    \/ Update
    \/ DirectoryOf(FirstId)

SpecCatalog == Init /\ [][NextCatalog]_vars

\* A capturing client on handle 1, a replaying client on handle 2.
NextReplay ==
    \/ \E s \in Sess : CreateSession(s)
    \/ Media
    \/ \E s \in Sess : PlayoutThread(s)
    \/ \E verb \in {"transcode", "stop"} : HandleMessage(1, verb)
    \/ \E verb \in {"play", "start", "stop"} : HandleMessage(2, verb)
    \/ \E want \in {0} \cup FirstId, id \in FirstId, amedia \in Directions, vmedia \in Directions :
         TranscodeNew(want, id, amedia, vmedia)
    \/ HandlePlayOf(FirstId)
    \/ HandleStart
    \/ Stop

SpecReplay == Init /\ [][NextReplay]_vars

\* The requests of all clients, the worker, the end of sessions.
NextQueue ==
    \/ Sessions
    \/ \E s \in Sess, verb \in Verbs : HandleMessage(s, verb)
    \/ HandlerDrop
    \/ HandleTranscodeOf(FirstId)
    \/ HandlePlayOf(FirstId)
    \/ HandleStart
    \/ Stop

SpecQueue == Init /\ [][NextQueue]_vars

\* Clients that capture audio under any id, the scans of the directory, the
\* end of captures and of sessions.
NextIds ==
    \/ Sessions
    \/ \E s \in Sess : HangupMedia(s)
    \/ \E s \in Sess : HandleMessage(s, "transcode")
    \/ HandlerDrop
    \/ \E id \in Ids : TranscodeExists(id)
    \/ \E want \in {0} \cup Ids, id \in Ids : TranscodeNew(want, id, "sendonly", "recvonly")
    \/ Update

SpecIds == Init /\ [][NextIds]_vars

\* The parser applied to every file of at most MaxRecs records.
InitFrames == Idle /\ parse \in [file : MjrFiles, done : {FALSE}, list : {<<>>}] /\ rtp = NoRtp /\ tear = NoTear /\ pace = NoPace /\ work = NoWork

NextFrames == GetFrames

SpecFrames == InitFrames /\ [][NextFrames]_vars

\* A simulcast capture: packets of the three substreams and of audio, at one
\* moment in time.
NextSimulcast ==
    \/ RtpCreateSession
    \/ \E simulcast \in BOOLEAN : RtpTranscode(simulcast)
    \/ \E video \in BOOLEAN, k \in 0..2, key \in BOOLEAN, rnd \in RandomInts : RtpIncoming(video, k, key, rnd)
    \/ RtpHangupMedia

SpecSimulcast == Init /\ [][NextSimulcast]_vars

\* A capture without simulcast, over time, the bitrate being configured.
NextRemb ==
    \/ RtpCreateSession
    \/ RtpTranscode(FALSE)
    \/ \E video \in BOOLEAN : RtpIncoming(video, 0, TRUE, 0)
    \/ \E b \in Bitrates \cup {-1}, kf \in BOOLEAN : RtpConfigure(b, kf)
    \/ RtpHangupMedia
    \/ RtpTick

SpecRemb == Init /\ [][NextRemb]_vars

\* The teardown of one session, statement by statement, on NumThreads host
\* threads, with the worker and the scan alongside.
NextTeardown ==
    \/ TearCreateSession
    \/ TearTranscode
    \/ TearStop
    \/ TearSetupMedia
    \/ TearSetupLatch
    \/ TearUpdate
    \/ \E t \in Threads, call \in {"hangup", "destroy"} : TearCall(t, call)
    \/ \E t \in Threads : TearLock(t) \/ TearEnter(t) \/ TearLockRec(t) \/ TearUnlockRec(t)
    \/ \E t \in Threads, f \in WriterFields : TearTake(t, f) \/ TearClose(t, f) \/ TearDestroy(t, f)
    \/ \E t \in Threads, ok \in BOOLEAN : TearNfo(t, ok)
    \/ \E t \in Threads : TearCompleted(t) \/ TearOffer(t) \/ TearUnref(t) \/ TearLatch(t) \/ TearReturn(t)

SpecTeardown == Init /\ [][NextTeardown]_vars

\* The requests of all clients, well-formed or not, and the worker.
NextErrors ==
    \/ NextQueue
    \/ \E s \in Sess : HandleMessage(s, "bogus")
    \/ UnknownRequest

SpecErrors == Init /\ [][NextErrors]_vars

\* One client captures, under any id and with any media; another replays.
NextPlay ==
    \/ \E s \in Sess : CreateSession(s)
    \/ SetupMedia(1)
    \/ HangupMedia(1)
    \/ \E video \in BOOLEAN : IncomingRtp(1, video)
    \/ HandleMessage(1, "transcode")
    \/ HandleMessage(2, "play")
    \/ \E id \in Ids, amedia \in Directions, vmedia \in Directions : TranscodeNew(id, id, amedia, vmedia)
    \/ HandlePlayOf(Ids)

SpecPlay == Init /\ [][NextPlay]_vars

\* One capture that receives RTP while the host hangs up or destroys the
\* session.
NextLateRtp ==
    \/ TearCreateSession
    \/ TearTranscode
    \/ \E call \in {"hangup", "destroy"} : TearCall(1, call)
    \/ TearLock(1) \/ TearEnter(1) \/ TearLockRec(1) \/ TearUnlockRec(1)
    \/ \E f \in WriterFields : TearTake(1, f) \/ TearClose(1, f) \/ TearDestroy(1, f)
    \/ \E ok \in BOOLEAN : TearNfo(1, ok)
    \/ TearCompleted(1) \/ TearOffer(1) \/ TearUnref(1) \/ TearLatch(1) \/ TearReturn(1)
    \/ \E simulcast \in BOOLEAN : TearRtpCheck(simulcast)
    \/ TearRtpEntry
    \/ \E f \in {"vrc", "pub"} : TearRtpRead(f) \/ TearRtpSave(f)

SpecLateRtp == Init /\ [][NextLateRtp]_vars

\* The first `play` of the session, and the setup_media that follows it
PaceFirstPlay(al, vl) == pace.st = "live" /\ pace.plays = 0 /\ PacePlay(al, vl)
PaceFirstSetup(ok) == pace.st = "live" /\ pace.plays > 0 /\ PaceSetupMedia(1, ok)

\* One replay: a `play`, the thread setup_media launches, the end of the media.
NextPacer ==
    \/ PaceCreateSession
    \/ \E al \in AudioLists, vl \in VideoLists : PaceFirstPlay(al, vl)
    \/ \E ok \in BOOLEAN : PaceFirstSetup(ok)
    \/ PaceHangupMedia
    \/ PaceDestroySession
    \/ \E opens \in BOOLEAN : PaceStart(1, opens)
    \/ PaceLoop(1) \/ PaceAudio(1) \/ PaceVideo(1) \/ PaceFree(1) \/ PaceLeave(1)
    \/ PaceTick

SpecPacer == Init /\ [][NextPacer]_vars

\* A viewer that replays, hangs up and replays again, and the host callbacks.
NextPacers ==
    \/ PaceCreateSession
    \/ PacePlay(<<>>, <<0, 0, 900>>)
    \/ \E t \in Pacers : PaceSetupMedia(t, TRUE)
    \/ PaceHangupMedia
    \/ \E t \in Pacers : PaceStart(t, TRUE)
    \/ \E t \in Pacers : PaceLoop(t) \/ PaceAudio(t) \/ PaceVideo(t) \/ PaceFree(t) \/ PaceLeave(t)
    \/ PaceTick

SpecPacers == Init /\ [][NextPacers]_vars

\* The same replay with a scheduler that lets every thread run and a clock
\* that advances.
SpecPacerFair ==
    /\ SpecPacer
    /\ WF_vars(PaceTick)
    /\ WF_vars(\E opens \in BOOLEAN : PaceStart(1, opens))
    /\ WF_vars(PaceLoop(1) \/ PaceAudio(1) \/ PaceVideo(1) \/ PaceFree(1) \/ PaceLeave(1))

\* The worker, the clients that send requests and go away, the shutdown.
NextWorker ==
    \/ WorkStart
    \/ \E h \in Sess, ok \in BOOLEAN : WorkHandleMessage(h, ok)
    \/ \E h \in Sess, ok \in BOOLEAN : WorkPush([h |-> h, ok |-> ok])
    \/ \E h \in Sess : WorkDestroySession(h)
    \/ WorkDestroy
    \/ WorkJoin
    \/ WorkTest
    \/ WorkPop
    \/ WorkLookup
    \/ WorkRequest

SpecWorker == Init /\ [][NextWorker]_vars

\* The same with a scheduler that lets the worker and the thread inside
\* janus_transcode_destroy run.
SpecWorkerFair ==
    /\ SpecWorker
    /\ WF_vars(WorkTest \/ WorkPop \/ WorkLookup \/ WorkRequest)
    /\ WF_vars(WorkJoin)

\* ------------------------------------------------------------ properties
\* C1: for a capturing session, two consecutive `stop` requests, each followed
\* by the hangup_media callback, leave exactly one .nfo written for the capture
\* and exactly one `done` event pushed to the client.
C1_StopTwiceOnce == \A s \in Sess : obs[s].stage = 5 => obs[s].dones = 1 /\ obs[s].nfos = 1

\* C3: a `transcode` request (not an SDP update) that proposes an id the
\* catalog holds is answered with error 420, and the step changes neither the
\* catalog, nor any entry, nor any session (role, writers, entry binding), nor
\* the capture files.
C3_ExistingIdRefused ==
    [][(last'.verb = "transcode" /\ ~last'.upd /\ last'.id # 0 /\ catalog[last'.id] # 0)
         => /\ last'.code = JANUS_TRANSCODE_ERROR_TRANSCODING_EXISTS
            /\ UNCHANGED <<sess, host, pacers, ent, catalog, nfo, mjr>>]_vars

C3_Witness ==
    /\ last.verb = "transcode"
    /\ last.code = JANUS_TRANSCODE_ERROR_TRANSCODING_EXISTS
    /\ last.id # 0
    /\ catalog[last.id] # 0
    /\ sess[last.h].transcoding = 0

\* C6: the .nfo written when a capturing session is stopped has the id of the
\* entry as its section, an `audio` line iff an audio file was created for the
\* capture, naming that file, and a `video` line iff a video file was created,
\* naming that file.
C6_NfoMatchesFiles ==
    [][\A s \in Sess :
         (HangupWrites(s) /\ Live(sess[s].transcoding) /\ sess'[s].transcoding = 0)
           => LET r == ent[sess[s].transcoding]
                  d == nfo'[r.id]
              IN  /\ d.ex /\ d.id = r.id
                  /\ d.audio = (IF sess[s].arc # NoFile THEN MjrName(sess[s].arc) ELSE NoLine)
                  /\ d.video = (IF sess[s].vrc # NoFile THEN MjrName(sess[s].vrc) ELSE NoLine)]_vars

\* C7: a capturing session that has received no video RTP has no video writer
\* and no video file, and its entry names no video file; likewise for audio.
C7_NoRtpNoFile ==
    \A s \in Sess :
      (sess[s].st = "live" /\ sess[s].transcoder /\ Live(sess[s].transcoding))
        => LET r == ent[sess[s].transcoding]
           IN  /\ mjr[VideoFile(r.id)].n = 0
                    => sess[s].vrc = NoFile /\ r.vrc_file = NoFile /\ ~mjr[VideoFile(r.id)].ex
               /\ mjr[AudioFile(r.id)].n = 0
                    => sess[s].arc = NoFile /\ r.arc_file = NoFile /\ ~mjr[AudioFile(r.id)].ex

\* C2: the reply a `list` request builds holds no catalog entry whose
\* `completed` flag is false, whatever transcode, hangup and update do
\* meanwhile.
C2_ListOnlyCompleted ==
    \A i \in lst.out : catalog[i] # 0 /\ ent[catalog[i]].id = i /\ ent[catalog[i]].completed

C2_Witness ==
    /\ lst.on
    /\ lst.out # {}
    /\ \E s \in Sess : sess[s].transcoder /\ Live(sess[s].transcoding)
                         /\ ~ent[sess[s].transcoding].completed

\* C4: once a capture accepted with id I was stopped and its "<I>.nfo"
\* written, the reply of every later `list` holds a completed entry with id I.
C4_StoppedCaptureListed == (lst.on /\ lst.todo = {}) => lst.must \subseteq lst.out

\* C5: after an `update`, every valid .nfo of the directory has a completed
\* entry with its id in the catalog, which is what the next `list` replies.
C5_PlacedNfoListed ==
    last.verb = "update"
      => \A f \in NfoNames :
           ValidNfo(nfo[f])
             => /\ catalog[nfo[f].id] # 0
                /\ Live(catalog[nfo[f].id])
                /\ ListIncludes(ent[catalog[nfo[f].id]])

\* C8: `start` without an SDP on a session that holds a frame list is answered
\* with error 415 and changes nothing of the sessions and the catalog.
C8_StartNeedsSdp ==
    [][(last'.verb = "start" /\ ~last'.hassdp
          /\ (sess[last'.h].aframes \/ sess[last'.h].vframes))
         => /\ last'.code = JANUS_TRANSCODE_ERROR_MISSING_ELEMENT
            /\ last'.status = "none"
            /\ UNCHANGED <<sess, host, pacers, ent, catalog, nfo, mjr>>]_vars

C8_Witness ==
    /\ last.verb = "start"
    /\ ~last.hassdp
    /\ last.code = JANUS_TRANSCODE_ERROR_MISSING_ELEMENT
    /\ sess[last.h].aframes \/ sess[last.h].vframes
    /\ ~sess[last.h].transcoder /\ Live(sess[last.h].transcoding)

\* An entry one of whose files parses
Parsable(r) ==
    \/ r.arc_file # NoFile /\ janus_transcode_get_frames(r.arc_file)
    \/ r.vrc_file # NoFile /\ janus_transcode_get_frames(r.vrc_file)

C10_QueuedInOrder ==
    [][/\ Len(queue') > Len(queue)
          => /\ Len(queue') = Len(queue) + 1
             /\ SubSeq(queue', 1, Len(queue)) = queue
             /\ queue'[Len(queue')].verb \in Verbs
             /\ last' = NoLast
             /\ UNCHANGED <<sess, host, pacers, obs, ent, catalog, nfo, mjr>>
       /\ Len(queue') < Len(queue) => queue' = Tail(queue)
       /\ last'.verb \in Verbs
          => /\ queue # <<>>
             /\ queue' = Tail(queue)
             /\ last'.h = Head(queue).h
             /\ last'.verb = Head(queue).verb]_vars

C10_Witness ==
    /\ last.verb \in Verbs
    /\ queue # <<>>
    /\ Head(queue).h # last.h

\* C16: every entry of the catalog that is not completed is the capture of
\* exactly one live session (its `transcoder` set, its `transcoding` the entry).
C16_IncompleteEntryOwned ==
    \A i \in Ids :
      (Live(catalog[i]) /\ ~ent[catalog[i]].completed)
        => Cardinality({s \in Sess : /\ sess[s].st = "live"
                                     /\ sess[s].transcoder
                                     /\ sess[s].transcoding = catalog[i]}) = 1

\* C18: every entry of the catalog names an audio or a video file, and has a
\* codec for each file it names.
C18_EntryHasMedia ==
    \A i \in Ids :
      Live(catalog[i])
        => LET r == ent[catalog[i]]
           IN  /\ r.arc_file # NoFile \/ r.vrc_file # NoFile
               /\ r.arc_file # NoFile => r.acodec # "none"
               /\ r.vrc_file # NoFile => r.vcodec # "none"

\* C19: no two sessions capture at the same moment with entries of one id.
C19_CaptureIdsDiffer ==
    \A s, t \in Sess :
      (/\ s # t
       /\ sess[s].st = "live" /\ sess[s].transcoder /\ Live(sess[s].transcoding)
       /\ sess[t].st = "live" /\ sess[t].transcoder /\ Live(sess[t].transcoding))
        => ent[sess[s].transcoding].id # ent[sess[t].transcoding].id

\* The wrap-aware comparison of two sequence numbers: x is the earlier one.  A
\* difference of more than SeqGap is a wrap, the smaller number being the later.
SeqPrecedes(x, y) == x # y /\ (IF abs(x - y) > SeqGap THEN x > y ELSE x < y)

\* C11: in the list get_frames returns, each node and the next are in order:
\* the first has the smaller timestamp, or they have the same timestamp and
\* the second does not precede the first in sequence number (wrap-aware).
C11_FramesOrdered ==
    parse.done =>
        \A k \in 1..(Len(parse.list) - 1) :
            LET a == parse.list[k]
                b == parse.list[k + 1]
            IN  \/ TsLess(a.ts, b.ts)
                \/ a.ts = b.ts /\ ~SeqPrecedes(b.seq, a.seq)

\* The capture writer's file: the info header, written with the first packet
\* and followed by its 'MEETECHO' tag, then one record per RTP packet.
WriterFile(F) ==
    /\ Len(F) >= 2
    /\ F[1] = InfoHeader(TRUE, TagWord)
    /\ \A i \in 2..Len(F) : F[i].tag = "E" /\ F[i].len >= RtpMin

\* The bytes in the file before the payload of record i: the records before
\* it and its own tag and length.
RECURSIVE PayloadAt(_, _)
PayloadAt(F, i) ==
    IF i = 1 THEN 10 ELSE PayloadAt(F, i - 1) + F[i - 1].len + 10

\* C12: of a file the writer made, an info header and N packets, get_frames
\* returns N nodes, one for each packet record, with the offset and the
\* length of that packet's bytes.
C12_OneNodePerPacket ==
    (parse.done /\ WriterFile(parse.file)) =>
        /\ Len(parse.list) = Len(parse.file) - 1
        /\ \A i \in 2..Len(parse.file) :
              \E k \in 1..Len(parse.list) :
                  /\ parse.list[k].rec = i
                  /\ parse.list[k].offset = PayloadAt(parse.file, i)
                  /\ parse.list[k].len = parse.file[i].len

C12_Witness ==
    parse.done /\ WriterFile(parse.file) /\ Len(parse.list) = 2

\* The packet records of a file, in file order
PacketRecs(F) == {i \in 1..Len(F) : F[i].tag = "E" /\ F[i].len >= RtpMin}

\* Packet j is the first packet after a wrap: the timestamp drops by more
\* than 2*10^9 from the packet recorded before it.
WrapAt(F, j) ==
    /\ j \in PacketRecs(F)
    /\ \E i \in PacketRecs(F) :
          /\ i < j
          /\ \A m \in PacketRecs(F) : ~(i < m /\ m < j)
          /\ F[i].ts - F[j].ts > ResetGap

\* C13: when the timestamps of a file wrap exactly once, every packet
\* recorded before the wrap comes, in the list, ahead of every packet
\* recorded after it.
C13_WrapKeepsOrder ==
    (parse.done /\ parse.list # <<>>) =>
        \A j \in PacketRecs(parse.file) :
            (WrapAt(parse.file, j) /\ \A m \in PacketRecs(parse.file) : WrapAt(parse.file, m) => m = j) =>
                \A k, n \in 1..Len(parse.list) :
                    (parse.list[k].rec < j /\ parse.list[n].rec >= j) => k < n

\* C14: in a simulcast capture every video packet handed to the video writer
\* and every video packet handed to the publish sink has rec_vssrc as its
\* SSRC, and rec_vssrc is still the value it had at the first saved packet.
C14_SimulcastSsrc ==
    (rtp.st = "live" /\ rtp.capturing /\ Simulcasting(rtp) /\ rtp.out.media = "video") =>
        /\ rtp.out.rc # -1 => rtp.out.rc = rtp.rec_vssrc
        /\ rtp.out.pub # -1 => rtp.out.pub = rtp.rec_vssrc
        /\ rtp.saved => rtp.rec_vssrc = rtp.first_vssrc

\* C15: the first four video packets that go through the feedback step send
\* REMBs of B/4, B/3, B/2 and B, B being the configured bitrate; a later REMB
\* comes 5 seconds or more after the one before and carries B; an audio
\* packet sends none.
C15_RembRamp ==
    [][(rtp.st = "live" /\ rtp'.out.fb) =>
          /\ rtp'.out.media = "audio" => rtp'.out.remb = -1
          /\ (rtp'.out.media = "video" /\ rtp.fed < RampLen) =>
                 rtp'.out.remb = rtp.video_bitrate \div (RampLen - rtp.fed)
          /\ (rtp'.out.media = "video" /\ rtp.fed >= RampLen /\ rtp'.out.remb # -1) =>
                 /\ rtp'.out.remb = rtp.video_bitrate
                 /\ rtp'.now - rtp.remb_at >= 5 * G_USEC_PER_SEC]_vars

C15_Witness ==
    /\ rtp.st = "live"
    /\ rtp.fed > RampLen
    /\ rtp.out.media = "video"
    /\ rtp.out.remb = rtp.video_bitrate
    /\ rtp.video_bitrate = 500000

\* C17: whenever another thread can look, an entry of the catalog that is
\* marked completed has its offer.
C17_CompletedHasOffer ==
    tear.st # "none" =>
        \A e \in Recs : (tear.rec[e].listed /\ tear.rec[e].completed) => tear.rec[e].offer

\* C20: however hangup_media, destroy_session and `stop` interleave on the
\* session, no writer and no sink is closed twice or destroyed twice.
C20_ClosedOnce ==
    tear.st # "none" =>
        \A w \in Writers : tear.closes[w] <= 1 /\ tear.destroys[w] <= 1

C20_Witness ==
    /\ tear.st = "live"
    /\ tear.stopping
    /\ tear.closes[1] = 1 /\ tear.destroys[1] = 1
    /\ tear.closes[3] = 1 /\ tear.destroys[3] = 1
    /\ \E t \in Threads : AtF(t, "take", "vrc") /\ tear.call[t] = "destroy"
    /\ \E t \in Threads : At(t, "lock") /\ tear.call[t] = "hangup"

\* C27: of the packets of a capture, those the simulcast selector accepts are
\* handed once to the writer of their medium and once to the sink, those it
\* rejects to neither; a packet outside simulcast is always accepted.
C27_WriterAndSink ==
    [][\A video \in BOOLEAN, k \in 0..2, key \in BOOLEAN, rnd \in RandomInts :
          RtpIncoming(video, k, key, rnd) =>
              LET accepted == (video /\ Simulcasting(rtp)) => k = SwitchTo(rtp, k, key)
              IN  /\ (rtp'.out.rc # -1) = accepted
                  /\ (rtp'.out.pub # -1) = accepted
                  /\ accepted => rtp'.out.pub = IF video THEN Ssrcs[k + 1] ELSE AudioSsrc
                  /\ rtp'.out.media = IF video THEN "video" ELSE "audio"]_vars

C27_Witness ==
    /\ rtp.st = "live"
    /\ rtp.capturing
    /\ Simulcasting(rtp)
    /\ rtp.saved
    /\ rtp.out.media = "video"
    /\ rtp.out.rc = -1 /\ rtp.out.pub = -1

\* C30: the flags hangingup and destroyed of a session are latches: once 1,
\* no later request or callback puts either back to 0.
C30_LatchesStay ==
    [][tear.st # "none" =>
          /\ tear.hangingup = 1 => tear'.hangingup = 1
          /\ tear.destroyed = 1 => tear'.destroyed = 1]_vars

\* C28: a `play` of an entry of the catalog that is completed and has its
\* offer is refused with 417 exactly when none of the files of the entry gives
\* a frame list; if the entry has two files and one of them gives a list, the
\* reply is `preparing` with a warning that names the other.
C28_PlayFailsWithoutFrames ==
    [][\A id \in Ids :
          (/\ Popped("play")
           /\ queue' = Tail(queue)
           /\ last'.verb = "play" /\ last'.id = id
           /\ Live(catalog[id])
           /\ ent[catalog[id]].completed /\ ~ent[catalog[id]].offer.null /\ ~ent[catalog[id]].destroyed)
          => LET r == ent[catalog[id]]
                 a == r.arc_file # NoFile /\ janus_transcode_get_frames(r.arc_file)
                 v == r.vrc_file # NoFile /\ janus_transcode_get_frames(r.vrc_file)
                 both == r.arc_file # NoFile /\ r.vrc_file # NoFile
             IN  /\ (last'.code = JANUS_TRANSCODE_ERROR_INVALID_TRANSCODING) = (~a /\ ~v)
                 /\ (both /\ a /\ ~v) => last'.status = "preparing" /\ last'.warning = "video"
                 /\ (both /\ v /\ ~a) => last'.status = "preparing" /\ last'.warning = "audio"]_vars

\* The codes of the protocol errors
ProtocolErrors == (411..416) \cup (418..420)

C21_NoLateRtp == tear.st # "none" => tear.late = {}

\* Where thread t is
PcOf(t) == IF pace.st = "none" THEN "none" ELSE pace.th[t].pc

\* C22: whatever setup_media callbacks, `play` requests and hangups a replay
\* session gets, at most one of its playout threads runs at a time.
C22_OnePacer == Cardinality({t \in Pacers : PcOf(t) \notin {"none", "failed", "done"}}) <= 1

\* The nodes 1..n of a list, in list order
InOrder(n) == [k \in 1..n |-> k]

\* C23: a playout thread that left its loop with both lists exhausted has
\* relayed every node of each list once, in list order.
C23_RelaysAllInOrder ==
    \A t \in Pacers :
        (PcOf(t) # "none" /\ pace.th[t].end = "exhausted") =>
            LET T == pace.th[t]
            IN  /\ T.arelayed = InOrder(Len(AudioOf(HeadOf(T.heads.a))))
                /\ T.vrelayed = InOrder(Len(VideoOf(HeadOf(T.heads.v))))

C23_Witness ==
    /\ PcOf(1) = "done"
    /\ pace.th[1].end = "exhausted"
    /\ pace.th[1].arelayed = <<1, 2, 3>>
    /\ pace.th[1].vrelayed = <<1, 2, 3>>
    /\ pace.lists[1].v = <<0, 900, 900>>

\* What thread t holds when it is done
CleanedUp(t) ==
    PcOf(t) = "done" =>
        /\ pace.th[t].closed = 1
        /\ \A g \in Plays : (pace.lists[g].a # <<>>) => (pace.freed[g].a = 1)
        /\ \A g \in Plays : (pace.lists[g].v # <<>>) => (pace.freed[g].v = 1)
        /\ pace.aframes = 0 /\ pace.vframes = 0
        /\ pace.viewers = 0
        /\ pace.sref = IF pace.destroyed = 1 THEN 0 ELSE 1

\* C24: with a fair scheduler and a clock that advances, a playout thread
\* that was started terminates, and when it has terminated every node of the
\* lists is freed once, the list pointers of the session are NULL, the session
\* is no viewer of the entry, the references of the thread are released and
\* the thread has called close_pc once.
C24_PacerEnds ==
    /\ \A t \in Pacers : (PcOf(t) = "start") ~> (PcOf(t) = "done")
    /\ [](\A t \in Pacers : CleanedUp(t))

\* C25: the first packet of a medium is relayed in the first round that looks
\* at it; a later packet is relayed only when more than its distance from the
\* previous packet less 5 ms has passed since the previous packet of the
\* medium was relayed.
C25_PacedBySchedule ==
    [][\A t \in Pacers :
          (PcOf(t) \in {"audio", "video"} /\ ~pace'.ub) =>
              LET T == pace.th[t]
                  U == pace'.th[t]
                  audio == T.pc = "audio" /\ U.pc = "video"
                  video == T.pc = "video" /\ U.pc = "loop"
              IN  /\ (audio /\ T.audio # NullNode /\ T.arelayed = <<>>) => U.arelayed = <<1>>
                  /\ (audio /\ T.arelayed # <<>> /\ U.arelayed # T.arelayed)
                        => T.asince > ts_diff(AudioOf(T.audio), T.audio.i, AudioKhz) - 5000
                  /\ (video /\ T.video # NullNode /\ T.vrelayed = <<>>) => U.vrelayed # <<>>
                  /\ (video /\ T.vrelayed # <<>> /\ U.vrelayed # T.vrelayed)
                        => T.vsince > ts_diff(VideoOf(T.video), T.video.i, VideoKhz) - 5000]_vars

\* C26: a round that relays video relays every node from the current one on
\* that has the timestamp of the current one, and no other node.
C26_VideoGroup ==
    [][\A t \in Pacers :
          (PcOf(t) = "video" /\ ~pace'.ub /\ pace'.th[t].vrelayed # pace.th[t].vrelayed) =>
              LET T == pace.th[t]
                  U == pace'.th[t]
                  list == VideoOf(T.video)
                  new == SubSeq(U.vrelayed, Len(T.vrelayed) + 1, Len(U.vrelayed))
              IN  /\ SubSeq(U.vrelayed, 1, Len(T.vrelayed)) = T.vrelayed
                  /\ {new[k] : k \in 1..Len(new)}
                        = {k \in T.video.i..Len(list) : list[k] = list[T.video.i]}
                  /\ Len(new) = Cardinality({new[k] : k \in 1..Len(new)})]_vars

C26_Witness ==
    /\ PcOf(1) = "loop"
    /\ pace.th[1].vsent
    /\ pace.lists[1].v = <<0, 900, 900>>
    /\ pace.th[1].vrelayed = <<1, 2, 3>>
    /\ pace.th[1].video = NullNode

\* The hang-up of the session on handle s is over: the session is bound to no
\* entry, the host has no PeerConnection for it and none of its playout
\* threads is left.
HungUp(s) == sess[s].st = "live" /\ sess[s].transcoding = 0 /\ host[s] = "none" /\ pacers[s] = 0

\* C31: once the hang-up of a session is over (after `stop` or hangup_media,
\* with or without a playout thread), no entry has the session among its
\* viewers.
C31_HungUpIsNoViewer ==
    \A s \in Sess : HungUp(s) => \A e \in Ents : Live(e) => ent[e].viewers[s] = 0

\* C32: an entry that is not completed has no viewer and no replaying session
\* bound to it, and a `play` that names such an entry is answered with 416 and
\* changes neither the session nor the entry.
C32_NoViewerOfOngoing ==
    [][/\ \A e \in Ents :
            (ent'[e].st = "live" /\ ~ent'[e].completed) =>
                \A s \in Sess : /\ ent'[e].viewers[s] = 0
                                /\ (sess'[s].transcoding = e => sess'[s].transcoder)
       /\ (/\ ~ub /\ queue # <<>> /\ Head(queue).verb = "play"
           /\ last'.verb = "play" /\ last'.id # 0 /\ ~last'.hassdp
           /\ catalog[last'.id] # 0 /\ Live(catalog[last'.id])
           /\ ~ent[catalog[last'.id]].completed)
          => /\ last'.code = JANUS_TRANSCODE_ERROR_NOT_FOUND
             /\ sess' = sess /\ ent' = ent /\ catalog' = catalog]_vars

C32_Witness ==
    /\ last.verb = "play"
    /\ last.code = JANUS_TRANSCODE_ERROR_NOT_FOUND
    /\ last.id # 0
    /\ catalog[last.id] # 0
    /\ Live(catalog[last.id])
    /\ ~ent[catalog[last.id]].completed
    /\ mjr[AudioFile(last.id)].n > 0
    /\ \E s \in Sess : sess[s].transcoder /\ sess[s].transcoding = catalog[last.id]

\* C33: an entry that the catalog holds, or that a session points to, is not
\* freed, whatever the scans of the directory found or removed.
C33_HeldEntryNotFreed ==
    /\ \A i \in Ids : ~Dangling(catalog[i])
    /\ \A s \in Sess : sess[s].st = "live" => ~Dangling(sess[s].transcoding)

\* C34: once janus_transcode_destroy has pushed the sentinel, the worker
\* terminates and janus_transcode_destroy gets past the join, with a scheduler
\* that lets them run; and no request pushed after the sentinel is ever
\* handled.
C34_SentinelStopsWorker ==
    /\ [](work.st = "live" => \A k \in 1..Len(work.handled) : work.handled[k] \notin work.after)
    /\ (work.st = "live" /\ work.stopping) ~> (work.st = "live" /\ work.joined /\ work.pc = "exited")

C34_Witness ==
    /\ work.st = "live"
    /\ work.joined
    /\ work.pc = "exited"
    /\ work.after # {}
    /\ work.handled # <<>>

\* C37: no request is accepted - writers or sink opened, entry inserted,
\* viewer added, session bound - for a session whose destroy_session has
\* returned.
C37_NoEffectAfterDestroy == work.st = "live" => work.late = {}

\* The ids of the catalog that a .nfo of the directory names
FoundAgain == {i \in Ids : Live(catalog[i]) /\ \E f \in NfoNames : nfo[f].ex /\ nfo[f].id = i}

\* C35: an `update` scan leaves every entry of the catalog whose id a .nfo of
\* the directory names where it is and as it is: same fields, same viewers,
\* same reference count.
C35_FoundEntryUntouched ==
    [][(~ub /\ last'.verb = "update") =>
          \A i \in FoundAgain :
              /\ ~ub'
              /\ catalog'[i] = catalog[i]
              /\ ent'[catalog[i]] = ent[catalog[i]]]_vars

\* C36: the timestamp of a node is the 32-bit timestamp of its packet when
\* pass 1 met no reset or the packet's timestamp is above first_ts, and 2^32
\* more otherwise, whatever the timestamp the reset was met at.
C36_ExtendedTimestamp ==
    parse.done =>
        LET st == Pass1(parse.file, 1, Pass1Start)
        IN  \A k \in 1..Len(parse.list) :
                LET p == parse.list[k]
                    ts == parse.file[p.rec].ts
                IN  p.ts = [hi |-> IF ~st.wrapped \/ ts > st.first_ts THEN 0 ELSE 1, lo |-> ts]

\* C38: a `play` answered with 416 or 417 leaves the reference count and the
\* viewers of the entry it named as they were, and gives the session no frame
\* list it did not have.
C38_FailedPlayLeavesEntry ==
    [][(/\ ~ub /\ queue # <<>> /\ Head(queue).verb = "play"
        /\ last'.verb = "play" /\ last'.id # 0
        /\ last'.code \in {JANUS_TRANSCODE_ERROR_NOT_FOUND, JANUS_TRANSCODE_ERROR_INVALID_TRANSCODING}
        /\ Live(catalog[last'.id]))
       => LET e == catalog[last'.id]
              s == last'.h
          IN  /\ ent'[e].ref = ent[e].ref
              /\ ent'[e].viewers = ent[e].viewers
              /\ sess'[s].aframes => sess[s].aframes
              /\ sess'[s].vframes => sess[s].vframes]_vars

\* C39: a `start` answered "playing" finds the session a replayer bound to a
\* catalog entry (session.transcoding set, not a capturer).
C39_StartOnlyWhenBound ==
    [][(/\ ~ub /\ queue # <<>> /\ Head(queue).verb = "start"
        /\ last'.verb = "start" /\ last'.status = "playing")
       => LET s == Head(queue).h
          IN  /\ sess[s].transcoding # 0
              /\ ~sess[s].transcoder]_vars

\* C40: a new `transcode` or `play` that is accepted replaces no writer, sink,
\* frame list or entry binding that the session still holds.
C40_AcceptedKeepsHeld ==
    [][(/\ ~ub /\ queue # <<>> /\ Head(queue).verb \in {"transcode", "play"}
        /\ last'.verb = Head(queue).verb
        /\ \/ last'.status = "transcoding" /\ ~last'.upd
           \/ last'.status = "preparing")
       => LET s == Head(queue).h
              r == ent[catalog[last'.rid]]
          IN  /\ sess[s].transcoding # 0 => sess'[s].transcoding = sess[s].transcoding
              /\ sess[s].arc # NoFile => sess'[s].arc = sess[s].arc
              /\ sess[s].vrc # NoFile => sess'[s].vrc = sess[s].vrc
              /\ sess[s].pub => last'.verb # "transcode"
              /\ sess[s].aframes => ~(last'.verb = "play" /\ r.arc_file # NoFile)
              /\ sess[s].vframes => ~(last'.verb = "play" /\ r.vrc_file # NoFile)]_vars

====
